---- MODULE Spec2Model ----
(***************************************************************************)
(* A model of the hand-rolled MCP server of mcp-ai-dev-tasks:              *)
(*   src/src/mcp-server.js        the registry, the dispatcher, the        *)
(*                                transport loop, start and shutdown       *)
(*   src/src/tools/append-string.js  the append-string handler             *)
(*   src/src/utils/file-reader.js    the file collaborator it awaits       *)
(*                                                                         *)
(* JavaScript runs one macrotask at a time (a stdin chunk, the end of      *)
(* stdin, the completion of one file operation, a call of the public API)  *)
(* and drains the microtask queue after each.  The model keeps that        *)
(* queue: the continuation of every await and every promise resolution is  *)
(* a job in micro, and a macrotask fires only when micro is empty.         *)
(***************************************************************************)
EXTENDS Integers, Sequences, FiniteSets, TLC

(***************************************************************************)
(* Bounds of the model.                                                    *)
(***************************************************************************)
MaxLines    == 2   \* Spec: newline characters received on stdin
MaxStarts   == 1   \* Spec: calls of start()
MaxRequests == 1   \* SpecRegistry: newline characters received on stdin
MaxApiCalls == 4   \* SpecRegistry: calls of start, shutdown, registerTool, unregisterTool
MaxFileOps  == 1   \* changes something else makes to create-prd.md
MaxCalls    == 2   \* SpecTool: calls of appendString by a program that requires it
MaxChanges  == 2   \* SpecTemplates: changes something else makes to the template files
MaxPending  == 1   \* SpecFraming: tokens a chunk may bring the buffer to

(***************************************************************************)
(* JavaScript values, tagged with their typeof.                            *)
(***************************************************************************)
Undefined == [t |-> "undefined"]
Null      == [t |-> "null"]
Str(s)    == [t |-> "string", v |-> s]       \* a name: one atom
Txt(r)    == [t |-> "string", r |-> r]       \* a text: runs of characters
Msg(p)    == [t |-> "string", p |-> p]       \* a message: concatenated parts
Num(n)    == [t |-> "number", v |-> n]
Bool(b)   == [t |-> "boolean", v |-> b]
Obj(f)    == [t |-> "object", v |-> f]
Arr(q)    == [t |-> "array", v |-> q]

\* typeof x: null and arrays are "object"
TypeOf(x) == IF x.t \in {"null", "array"} THEN "object" ELSE x.t

\* x.k for an object x; undefined when the key is absent or x has no keys
Get(x, k) ==
  IF x.t = "object" /\ k \in DOMAIN x.v THEN x.v[k] ELSE Undefined

\* !x
Falsy(x) ==
  \/ x.t \in {"undefined", "null"}
  \/ x.t = "string" /\ "v" \in DOMAIN x /\ x.v = ""
  \/ x.t = "string" /\ "r" \in DOMAIN x /\ x.r = <<>>
  \/ x.t = "string" /\ "p" \in DOMAIN x /\ x.p = <<>>
  \/ x.t = "number" /\ x.v = 0
  \/ x.t = "boolean" /\ ~x.v

\* a test of x[k] for truth in place of k in x
HasTruthy(x, k) == x.t = "object" /\ k \in DOMAIN x.v /\ ~Falsy(x.v[k])

\* k in x, for an object x
HasKey(x, k) == x.t = "object" /\ k \in DOMAIN x.v

(***************************************************************************)
(* Text.  A text is a sequence of runs [c, n]: n >= 1 characters of class  *)
(* c.  Classes "sp" and "nl" are whitespace; the other classes are words   *)
(* of CharLen[c] characters each, so that a text of 10,001 characters is   *)
(* one run.                                                                *)
(***************************************************************************)
Run(c, n) == <<[c |-> c, n |-> n]>>

WhiteSpace == {"sp", "nl"}

CharLen(c) ==
  CASE c = "javascript:"    -> 11
    [] c = "<script>"       -> 8
    [] c = "JavaScript:"    -> 11
    [] c = "vbscript:"      -> 9
    [] c = "data:text/html" -> 14
    [] c = "<script></script>" -> 17
    [] c = "VBSCRIPT:"      -> 9
    [] c = "Data:Text/Html" -> 14
    [] c = "<SCRIPT></Script>" -> 17
    [] c = "Create"         -> 6
    [] c = "PRD"            -> 3
    [] c = "Original"       -> 8
    [] c = "content"        -> 7
    [] c = "New"            -> 3
    [] c = "Section"        -> 7
    [] c = "here"           -> 4
    [] OTHER -> 1

RECURSIVE Length(_)
Length(s) == IF s = <<>> THEN 0 ELSE Head(s).n * CharLen(Head(s).c) + Length(Tail(s))

RECURSIVE TrimStart(_)
TrimStart(s) ==
  IF s # <<>> /\ Head(s).c \in WhiteSpace THEN TrimStart(Tail(s)) ELSE s

RECURSIVE TrimEnd(_)
TrimEnd(s) ==
  IF s # <<>> /\ s[Len(s)].c \in WhiteSpace
  THEN TrimEnd(SubSeq(s, 1, Len(s) - 1)) ELSE s

\* String.prototype.trim
Trim(s) == TrimEnd(TrimStart(s))

\* toLowerCase of a word class (the patterns carry the i flag)
Lower(c) ==
  CASE c = "JavaScript:"       -> "javascript:"
    [] c = "VBSCRIPT:"         -> "vbscript:"
    [] c = "Data:Text/Html"    -> "data:text/html"
    [] c = "<SCRIPT></Script>" -> "<script></script>"
    [] OTHER -> c

(***************************************************************************)
(* Messages.  A template literal keeps its parts; ${x} of undefined is the *)
(* text "undefined".                                                       *)
(***************************************************************************)
Parts(x) ==
  CASE x.t = "undefined" -> <<"undefined">>
    [] x.t = "null"      -> <<"null">>
    [] x.t = "number"    -> <<ToString(x.v)>>
    [] x.t = "string" /\ "v" \in DOMAIN x -> <<x.v>>
    [] x.t = "string" /\ "p" \in DOMAIN x -> x.p
    [] OTHER             -> <<"[object Object]">>

\* does the message contain the part?
Contains(msg, part) ==
  msg.t = "string" /\ "p" \in DOMAIN msg /\ \E i \in 1..Len(msg.p) : msg.p[i] = part

\* new Error(message): an object whose message property is the message
Error(msg) == Obj([message |-> msg])

(***************************************************************************)
(* src/src/tools/append-string.js                                          *)
(***************************************************************************)
MaxLength == 10000

HarmfulWords == {"<script></script>", "javascript:", "data:text/html", "vbscript:"}

\* patterns that would lack the i flag
harmfulPatternsCaseSensitive(s) == \E i \in 1..Len(s) : s[i].c \in HarmfulWords

\* some pattern of harmfulPatterns matches the text
harmfulPatterns(s) == \E i \in 1..Len(s) : Lower(s[i].c) \in HarmfulWords

\* a validation that would take the maximum itself for too long
validateStringInputInclusive(input) ==
  IF input.t \in {"undefined", "null"}
  THEN [valid |-> FALSE, error |-> Msg(<<"String to append is required">>)]
  ELSE IF TypeOf(input) # "string"
  THEN [valid |-> FALSE,
        error |-> Msg(<<"String to append must be a string type, got ", TypeOf(input)>>)]
  ELSE LET trimmedString == Trim(input.r) IN
    IF Length(trimmedString) = 0
    THEN [valid |-> FALSE,
          error |-> Msg(<<"String to append cannot be empty or contain only whitespace">>)]
    ELSE IF Length(trimmedString) >= MaxLength
    THEN [valid |-> FALSE,
          error |-> Msg(<<"String to append is too long (",
                          ToString(Length(trimmedString)),
                          " characters, maximum 10,000)">>)]
    ELSE IF harmfulPatterns(trimmedString)
    THEN [valid |-> FALSE,
          error |-> Msg(<<"String to append contains potentially harmful content">>)]
    ELSE [valid |-> TRUE,
          cleanedString |-> trimmedString,
          originalLength |-> Length(input.r),
          cleanedLength |-> Length(trimmedString)]

validateStringInput(input) ==
  IF input.t \in {"undefined", "null"}
  THEN [valid |-> FALSE, error |-> Msg(<<"String to append is required">>)]
  ELSE IF TypeOf(input) # "string"
  THEN [valid |-> FALSE,
        error |-> Msg(<<"String to append must be a string type, got ", TypeOf(input)>>)]
  ELSE LET trimmedString == Trim(input.r) IN
    IF Length(trimmedString) = 0
    THEN [valid |-> FALSE,
          error |-> Msg(<<"String to append cannot be empty or contain only whitespace">>)]
    ELSE IF Length(trimmedString) > MaxLength
    THEN [valid |-> FALSE,
          error |-> Msg(<<"String to append is too long (",
                          ToString(Length(trimmedString)),
                          " characters, maximum 10,000)">>)]
    ELSE IF harmfulPatterns(trimmedString)
    THEN [valid |-> FALSE,
          error |-> Msg(<<"String to append contains potentially harmful content">>)]
    ELSE [valid |-> TRUE,
          cleanedString |-> trimmedString,
          originalLength |-> Length(input.r),
          cleanedLength |-> Length(trimmedString)]

\* new Date().toISOString(): the clock is outside the model
Timestamp == Str("<now>")

\* a response that would not count the two newlines of the separator
formatMCPResponseNoSeparator(content, metadata) ==
  Obj([content |-> Txt(content),
       metadata |-> Obj([operation |-> Str("append-string"),
                         timestamp |-> Timestamp,
                         contentLength |-> Num(Length(content) - 2),
                         originalFileSize |-> metadata.originalFileSize,
                         appendedStringLength |-> metadata.appendedStringLength,
                         validationInfo |-> metadata.validationInfo,
                         fileInfo |-> metadata.fileInfo])])

\* a response that would report the length of the input before trimming
formatMCPResponseOriginalLength(content, metadata) ==
  Obj([content |-> Txt(content),
       metadata |-> Obj([operation |-> Str("append-string"),
                         timestamp |-> Timestamp,
                         contentLength |-> Num(Length(content)),
                         originalFileSize |-> metadata.originalFileSize,
                         appendedStringLength |-> Get(metadata.validationInfo, "originalLength"),
                         validationInfo |-> metadata.validationInfo,
                         fileInfo |-> metadata.fileInfo])])

formatMCPResponse(content, metadata) ==
  Obj([content |-> Txt(content),
       metadata |-> Obj([operation |-> Str("append-string"),
                         timestamp |-> Timestamp,
                         contentLength |-> Num(Length(content)),
                         originalFileSize |-> metadata.originalFileSize,
                         appendedStringLength |-> metadata.appendedStringLength,
                         validationInfo |-> metadata.validationInfo,
                         fileInfo |-> metadata.fileInfo])])

formatMCPError(error, code, details) ==
  Obj([error |-> Obj([message |-> error,
                      code |-> Str(code),
                      details |-> Obj([operation |-> Str("append-string"),
                                       timestamp |-> Timestamp,
                                       inputLength |-> details.inputLength,
                                       inputType |-> details.inputType])])])

\* x?.length: the length of a string or an array, the length property of an
\* object, undefined for anything else
LengthOf(x) ==
  CASE x.t = "string" /\ "r" \in DOMAIN x -> Num(Length(x.r))
    [] x.t = "array"  -> Num(Len(x.v))
    [] x.t = "object" -> Get(x, "length")
    [] OTHER          -> Undefined

\* a combination that would put one newline between the two
combinedContentOneNewline(fileContent, trimmedString) ==
  fileContent \o Run("nl", 1) \o trimmedString

\* const combinedContent = fileContent + '\n\n' + trimmedString
combinedContent(fileContent, trimmedString) ==
  fileContent \o Run("nl", 2) \o trimmedString

\* a catch that would throw the caught error on as it is
appendStringCatchRethrow(error, stringToAppend) == error

\* the catch of appendString: what it throws for a caught error
appendStringCatch(error, stringToAppend) ==
  formatMCPError(Get(error, "message"), "APPEND_ERROR",
                 [inputLength |-> IF Falsy(LengthOf(stringToAppend)) THEN Num(0)
                                  ELSE LengthOf(stringToAppend),
                  inputType |-> Str(TypeOf(stringToAppend))])

(***************************************************************************)
(* src/src/utils/file-reader.js: what each operation answers when it       *)
(* observes instructions/create-prd.md in state f.  An operation observes  *)
(* the file once: the access and stat calls inside checkFilePermissions    *)
(* see the same state.                                                     *)
(***************************************************************************)
\* "# Create PRD\n\nOriginal content"
DocText ==
  Run("#", 1) \o Run("sp", 1) \o Run("Create", 1) \o Run("sp", 1) \o Run("PRD", 1)
  \o Run("nl", 2) \o Run("Original", 1) \o Run("sp", 1) \o Run("content", 1)
FileOk     == [exists |-> TRUE,  readable |-> TRUE,  isFile |-> TRUE,  content |-> DocText]
FileBlank  == [exists |-> TRUE,  readable |-> TRUE,  isFile |-> TRUE,  content |-> Run("nl", 1)]
FileEmpty  == [exists |-> TRUE,  readable |-> TRUE,  isFile |-> TRUE,  content |-> <<>>]
FileDir    == [exists |-> TRUE,  readable |-> TRUE,  isFile |-> FALSE, content |-> <<>>]
FileLocked == [exists |-> TRUE,  readable |-> FALSE, isFile |-> TRUE,  content |-> DocText]
FileGone   == [exists |-> FALSE, readable |-> FALSE, isFile |-> FALSE, content |-> <<>>]
FileStates == {FileOk, FileBlank, FileEmpty, FileDir, FileLocked, FileGone}

\* a check that would ask for the existence of the file only
createPrdFileExistsOnly(f) == f.exists

\* fs.promises.access(path, F_OK | R_OK) succeeded
createPrdFileExists(f) == f.exists /\ f.readable

getCreatePrdFileInfo(f) ==
  IF ~f.exists
  THEN Obj([path |-> Str("create-prd.md"), exists |-> Bool(FALSE),
            error |-> Msg(<<"File not found">>)])
  ELSE IF ~f.readable
  THEN Obj([path |-> Str("create-prd.md"), exists |-> Bool(TRUE),
            readable |-> Bool(FALSE),
            error |-> Msg(<<"Permission denied - file not readable">>)])
  ELSE Obj([path |-> Str("create-prd.md"), exists |-> Bool(TRUE),
            readable |-> Bool(TRUE),
            size |-> Num(Length(f.content)),
            lastModified |-> Timestamp])

\* readFile(path): the content, or the error it throws
readFile(f) ==
  IF ~f.exists
  THEN [ok |-> FALSE, error |-> Error(Msg(<<"File not found", ": create-prd.md">>))]
  ELSE IF ~f.isFile
  THEN [ok |-> FALSE, error |-> Error(Msg(<<"Path is not a file: create-prd.md">>))]
  ELSE IF ~f.readable
  THEN [ok |-> FALSE,
        error |-> Error(Msg(<<"Permission denied",
                              " reading file 'create-prd.md'. File exists but is not readable. Please check file permissions.">>))]
  ELSE [ok |-> TRUE, content |-> f.content]

\* the catch of readCreatePrdFile: the error it throws for a caught one
readCreatePrdFileCatch(error) ==
  LET m == Get(error, "message") IN
  IF Contains(m, "File not found")
  THEN Error(Msg(<<"create-prd.md file is missing. Expected location: create-prd.md">>))
  ELSE IF Contains(m, "Permission denied")
  THEN Error(Msg(<<"Permission denied", " accessing create-prd.md. Please check file permissions.">>))
  ELSE IF Contains(m, "Path is a directory")
  THEN Error(Msg(<<"Expected create-prd.md to be a file, but found a directory instead.">>))
  ELSE Error(Msg(<<"Failed to read create-prd.md: ">> \o Parts(m)))

\* readCreatePrdFile after its own existence check found the file missing
readCreatePrdFileMissing ==
  readCreatePrdFileCatch(Error(Msg(<<"create-prd.md file not found at expected location: create-prd.md. Please ensure the file exists in the instructions directory.">>)))

\* a reader that would return whatever content it got
readCreatePrdFileUnchecked(f) ==
  LET r == readFile(f) IN
  IF ~r.ok THEN [ok |-> FALSE, error |-> readCreatePrdFileCatch(r.error)]
  ELSE [ok |-> TRUE, content |-> r.content]

\* readCreatePrdFile from its readFile on: the content, or the error thrown
readCreatePrdFile(f) ==
  LET r == readFile(f) IN
  IF ~r.ok THEN [ok |-> FALSE, error |-> readCreatePrdFileCatch(r.error)]
  ELSE IF Length(Trim(r.content)) = 0
  THEN [ok |-> FALSE,
        error |-> readCreatePrdFileCatch(
                    Error(Msg(<<"create-prd.md file is empty or contains only whitespace">>)))]
  ELSE [ok |-> TRUE, content |-> r.content]

(***************************************************************************)
(* src/src/mcp-server.js: the registry.  tools is the Map in insertion     *)
(* order, one entry per name.                                              *)
(***************************************************************************)
\* the configuration initialize() registers append-string with
AppendConfig ==
  [inputSchema |-> Obj([type |-> Str("object"),
                        required |-> Arr(<<Str("stringToAppend")>>)])]

\* a configuration a caller of registerTool passes for a tool of its own
EchoConfig ==
  [inputSchema |-> Obj([type |-> Str("object"),
                        required |-> Arr(<<Str("text"), Str("mode")>>)])]

ToolNames == {"append-string", "echo"}

ConfigOf(name) == IF name = "append-string" THEN AppendConfig ELSE EchoConfig

\* this.tools.has(name)
Has(ts, name) == \E i \in 1..Len(ts) : ts[i].name = name

\* this.tools.get(name), for a name the Map has
getTool(ts, name) == ts[CHOOSE i \in 1..Len(ts) : ts[i].name = name]

\* a Map that would put a new entry first
MapSetFirst(ts, entry) == <<entry>> \o ts

\* this.tools.set(name, entry) for a name the Map does not have
MapSet(ts, entry) == Append(ts, entry)

\* this.tools.delete(name)
MapDelete(ts, name) == SelectSeq(ts, LAMBDA e : e.name # name)

\* Array.from(this.tools.values())
getAllTools(ts) == ts

\* a createErrorResponse that would carry an empty result beside the error
createErrorResponseWithResult(id, message, code) ==
  Obj([jsonrpc |-> Str("2.0"),
       id |-> id,
       result |-> Obj([content |-> Arr(<<>>)]),
       error |-> Obj([code |-> Num(code), message |-> message])])

\* a createErrorResponse that would answer every error with id null
createErrorResponseNullId(id, message, code) ==
  Obj([jsonrpc |-> Str("2.0"),
       id |-> Null,
       error |-> Obj([code |-> Num(code), message |-> message])])

createErrorResponse(id, message, code) ==
  Obj([jsonrpc |-> Str("2.0"),
       id |-> id,
       error |-> Obj([code |-> Num(code), message |-> message])])

handleToolsList(ts, id) ==
  Obj([jsonrpc |-> Str("2.0"),
       id |-> id,
       result |-> Obj([tools |->
         Arr([i \in 1..Len(getAllTools(ts)) |->
                Obj([name |-> Str(ts[i].name),
                     inputSchema |-> ts[i].inputSchema])])])])

(***************************************************************************)
(* The lines a client sends.  A line of the stream is a sequence of        *)
(* tokens: " " is a whitespace character, every other token is a stretch   *)
(* of characters named here.  A token of Json is a complete JSON text;     *)
(* any other token, and any line of two or more tokens, is not JSON.       *)
(***************************************************************************)
Request(id, method, params) ==
  Obj([jsonrpc |-> Str("2.0"), id |-> id, method |-> Str(method), params |-> params])

Call(id, name, arguments) ==
  Request(id, "tools/call", Obj([name |-> name, arguments |-> arguments]))

Json ==
  [list          |-> Obj([jsonrpc |-> Str("2.0"), id |-> Num(1), method |-> Str("tools/list")]),
   callOk        |-> Call(Num(2), Str("append-string"),
                          Obj([stringToAppend |-> Txt(Run("sp", 1) \o Run("a", 3))])),
   callBlank     |-> Call(Num(3), Str("append-string"),
                          Obj([stringToAppend |-> Txt(Run("sp", 2))])),
   callUnknown   |-> Call(Num(4), Str("nope"), Obj([stringToAppend |-> Txt(Run("a", 1))])),
   callEcho      |-> Call(Num(5), Str("echo"),
                          Obj([text |-> Txt(Run("a", 1)), mode |-> Str("loud")])),
   callEchoText  |-> Call(Num(20), Str("echo"), Obj([text |-> Txt(Run("a", 1))])),
   callEchoNone  |-> Call(Num(21), Str("echo"), Obj([other |-> Num(1)])),
   callNoName    |-> Call(Num(6), Str(""), Obj([stringToAppend |-> Txt(Run("a", 1))])),
   callUnknownNoArgs |-> Request(Num(7), "tools/call", Obj([name |-> Str("nope")])),
   callNoArgs    |-> Request(Num(8), "tools/call", Obj([name |-> Str("append-string")])),
   callMissing   |-> Call(Num(9), Str("append-string"), Obj([other |-> Num(1)])),
   callNumber    |-> Call(Num(10), Str("append-string"), Obj([stringToAppend |-> Num(5)])),
   callLong      |-> Call(Num(11), Str("append-string"),
                          Obj([stringToAppend |-> Txt(Run("a", MaxLength + 1))])),
   callEmpty     |-> Call(Num(12), Str("append-string"), Obj([stringToAppend |-> Txt(<<>>)])),
   callHarmful   |-> Call(Num(13), Str("append-string"),
                          Obj([stringToAppend |-> Txt(Run("a", 1) \o Run("JavaScript:", 1))])),
   callNoParams  |-> Obj([jsonrpc |-> Str("2.0"), id |-> Num(14), method |-> Str("tools/call")]),
   callNameNumber |-> Call(Num(15), Num(7), Obj([stringToAppend |-> Txt(Run("a", 1))])),
   unknownMethod |-> Obj([jsonrpc |-> Str("2.0"), id |-> Num(16), method |-> Str("ping")]),
   emptyMethod   |-> Obj([jsonrpc |-> Str("2.0"), id |-> Num(22), method |-> Str("")]),
   noMethod      |-> Obj([jsonrpc |-> Str("2.0"), id |-> Num(17)]),
   noId          |-> Obj([jsonrpc |-> Str("2.0"), method |-> Str("tools/list")]),
   nullId        |-> Obj([jsonrpc |-> Str("2.0"), id |-> Null, method |-> Str("ping")]),
   version1      |-> Obj([jsonrpc |-> Str("1.0"), id |-> Num(18), method |-> Str("tools/list")]),
   noVersion     |-> Obj([method |-> Str("tools/list")]),
   bare          |-> Obj([jsonrpc |-> Str("2.0")]),
   methodNumber  |-> Obj([jsonrpc |-> Str("2.0"), method |-> Num(5)]),
   null          |-> Null,
   number        |-> Num(5)]

\* a token that is not JSON
Garbage == "{oops"

\* JSON.parse(message): the value, or a SyntaxError
JSONParse(message) ==
  IF Len(message) = 1 /\ message[1] \in DOMAIN Json
  THEN [ok |-> TRUE, value |-> Json[message[1]]]
  ELSE [ok |-> FALSE]

\* JSON.stringify: a key whose value is undefined is left out
RECURSIVE Stringify(_)
Stringify(x) ==
  IF x.t = "object"
  THEN Obj([k \in {j \in DOMAIN x.v : x.v[j].t # "undefined"} |-> Stringify(x.v[k])])
  ELSE x

\* the two pieces of a text that a chunk boundary has cut in two
FirstHalf(text)  == "first half of " \o text
SecondHalf(text) == "second half of " \o text

\* a + b for strings of tokens: the two pieces of a text, one after the
\* other, are the text
Concat(a, b) ==
  IF a # <<>> /\ b # <<>>
     /\ \E text \in DOMAIN Json : a[Len(a)] = FirstHalf(text) /\ b[1] = SecondHalf(text)
  THEN LET text == CHOOSE text \in DOMAIN Json :
                     a[Len(a)] = FirstHalf(text) /\ b[1] = SecondHalf(text)
       IN SubSeq(a, 1, Len(a) - 1) \o <<text>> \o Tail(b)
  ELSE a \o b

\* String.prototype.trim of a line of tokens
RECURSIVE TrimLine(_)
TrimLine(l) ==
  IF l # <<>> /\ Head(l) = " " THEN TrimLine(Tail(l))
  ELSE IF l # <<>> /\ l[Len(l)] = " " THEN TrimLine(SubSeq(l, 1, Len(l) - 1))
  ELSE l

\* buffer.indexOf('\n'), 0 when there is none
RECURSIVE IndexOfNewline(_, _)
IndexOfNewline(b, i) ==
  IF i > Len(b) THEN 0 ELSE IF b[i] = "\n" THEN i ELSE IndexOfNewline(b, i + 1)

(***************************************************************************)
(* The dispatcher.  An async function runs synchronously up to its first   *)
(* await; the operators below give that synchronous part.                  *)
(***************************************************************************)
Return(v)  == [k |-> "return", v |-> v]

\* a loop over the required parameters that would report the last one missing
requiredParamLast(required, args) ==
  LET missing == {i \in 1..Len(required) : ~HasKey(args, required[i].v)} IN
  IF missing = {} THEN 0 ELSE CHOOSE i \in missing : \A j \in missing : j <= i

\* "for (const requiredParam of tool.inputSchema.required)": the position of
\* the parameter the loop returns on, 0 when it runs to its end
requiredParam(required, args) ==
  LET missing == {i \in 1..Len(required) : ~HasKey(args, required[i].v)} IN
  IF missing = {} THEN 0 ELSE CHOOSE i \in missing : \A j \in missing : i <= j

\* a handleToolCall that would look at the type of stringToAppend before it
\* looks for the required parameters
handleToolCallArgumentsTypeFirst(ts, params, id) ==
  LET name == Get(params, "name")
      args == Get(params, "arguments")
  IN
  IF Falsy(args) \/ TypeOf(args) # "object"
  THEN Return(createErrorResponse(id, Msg(<<"Invalid request: arguments must be an object">>), -32600))
  ELSE IF name.v = "append-string" /\ TypeOf(Get(args, "stringToAppend")) # "string"
  THEN Return(createErrorResponse(id,
         Msg(<<"Invalid parameter: ", "stringToAppend", " must be a string">>), -32602))
  ELSE
    LET tool     == getTool(ts, name.v)
        required == IF ~Falsy(tool.inputSchema) /\ ~Falsy(Get(tool.inputSchema, "required"))
                    THEN Get(tool.inputSchema, "required").v ELSE <<>>
        missing  == requiredParam(required, args)
    IN
    IF missing # 0
    THEN Return(createErrorResponse(id, Msg(<<"Missing required parameter: ", required[missing].v>>), -32602))
    ELSE IF name.v = "append-string"
    THEN [k |-> "append", stringToAppend |-> Get(args, "stringToAppend")]
    ELSE Return(createErrorResponse(id, Msg(<<"Tool '", name.v, "' not implemented">>), -32601))

\* handleToolCall from "Validate arguments" on, for a registered tool, up to
\* "await appendString(args.stringToAppend)"
handleToolCallArguments(ts, params, id) ==
  LET name == Get(params, "name")
      args == Get(params, "arguments")
  IN
  IF Falsy(args) \/ TypeOf(args) # "object"
  THEN Return(createErrorResponse(id, Msg(<<"Invalid request: arguments must be an object">>), -32600))
  ELSE
    LET tool     == getTool(ts, name.v)
        required == IF ~Falsy(tool.inputSchema) /\ ~Falsy(Get(tool.inputSchema, "required"))
                    THEN Get(tool.inputSchema, "required").v ELSE <<>>
        missing  == requiredParam(required, args)
    IN
    IF missing # 0
    THEN Return(createErrorResponse(id, Msg(<<"Missing required parameter: ", required[missing].v>>), -32602))
    ELSE IF name.v = "append-string"
    THEN IF TypeOf(Get(args, "stringToAppend")) # "string"
         THEN Return(createErrorResponse(id,
                Msg(<<"Invalid parameter: ", "stringToAppend", " must be a string">>), -32602))
         ELSE [k |-> "append", stringToAppend |-> Get(args, "stringToAppend")]
    ELSE Return(createErrorResponse(id, Msg(<<"Tool '", name.v, "' not implemented">>), -32601))

\* a handleToolCall that would validate the arguments before it looks the tool up
handleToolCallArgumentsFirst(ts, params, id) ==
  LET name == Get(params, "name")
      args == Get(params, "arguments")
  IN
  IF Falsy(name) \/ TypeOf(name) # "string"
  THEN Return(createErrorResponse(id, Msg(<<"Invalid request: tool name must be a string">>), -32600))
  ELSE IF Falsy(args) \/ TypeOf(args) # "object"
  THEN Return(createErrorResponse(id, Msg(<<"Invalid request: arguments must be an object">>), -32600))
  ELSE IF ~Has(ts, name.v)
  THEN Return(createErrorResponse(id, Msg(<<"Tool '", name.v, "' not found">>), -32601))
  ELSE handleToolCallArguments(ts, params, id)

\* handleToolCall up to "await appendString(args.stringToAppend)"
handleToolCall(ts, params, id) ==
  LET name == Get(params, "name") IN
  IF Falsy(name) \/ TypeOf(name) # "string"
  THEN Return(createErrorResponse(id, Msg(<<"Invalid request: tool name must be a string">>), -32600))
  ELSE IF ~Has(ts, name.v)
  THEN Return(createErrorResponse(id, Msg(<<"Tool '", name.v, "' not found">>), -32601))
  ELSE handleToolCallArguments(ts, params, id)

\* a handleToolCall that would wrap whatever the handler returned
handleToolCallResumeWrap(id, settled) ==
  IF settled.t = "rejected"
  THEN createErrorResponse(id,
         Msg(<<"Tool execution error: ">> \o Parts(Get(settled.value, "message"))), -32603)
  ELSE Obj([jsonrpc |-> Str("2.0"), id |-> id, result |-> Obj([content |-> settled.value])])

\* handleToolCall after the await: the response for what appendString settled to
handleToolCallResume(id, settled) ==
  IF settled.t = "rejected"
  THEN createErrorResponse(id,
         Msg(<<"Tool execution error: ">> \o Parts(Get(settled.value, "message"))), -32603)
  ELSE LET result == settled.value IN
       IF ~Falsy(result) /\ TypeOf(result) = "object" /\ Get(result, "content").t # "undefined"
       THEN Obj([jsonrpc |-> Str("2.0"), id |-> id, result |-> result])
       ELSE Obj([jsonrpc |-> Str("2.0"), id |-> id, result |-> Obj([content |-> result])])

\* a handleRequest whose switch would take any other method for tools/call
handleRequestFallThrough(ts, request) ==
  IF Falsy(request) \/ TypeOf(request) # "object"
  THEN Return(createErrorResponse(Null, Msg(<<"Invalid request: must be an object">>), -32600))
  ELSE
    LET method == Get(request, "method")
        params == Get(request, "params")
        id     == Get(request, "id")
    IN
    IF Falsy(method) \/ TypeOf(method) # "string"
    THEN Return(createErrorResponse(id, Msg(<<"Invalid request: method must be a string">>), -32600))
    ELSE IF id.t \in {"undefined", "null"}
    THEN Return(createErrorResponse(Null, Msg(<<"Invalid request: id is required">>), -32600))
    ELSE IF method.v = "tools/list"
    THEN [k |-> "list", v |-> handleToolsList(ts, id)]
    ELSE IF Falsy(params) \/ TypeOf(params) # "object"
         THEN Return(createErrorResponse(id, Msg(<<"Invalid request: params must be an object">>), -32600))
         ELSE [k |-> "call", id |-> id, v |-> handleToolCall(ts, params, id)]

\* handleRequest: a response, or the promise of handleToolCall
handleRequest(ts, request) ==
  IF Falsy(request) \/ TypeOf(request) # "object"
  THEN Return(createErrorResponse(Null, Msg(<<"Invalid request: must be an object">>), -32600))
  ELSE
    LET method == Get(request, "method")
        params == Get(request, "params")
        id     == Get(request, "id")
    IN
    IF Falsy(method) \/ TypeOf(method) # "string"
    THEN Return(createErrorResponse(id, Msg(<<"Invalid request: method must be a string">>), -32600))
    ELSE IF id.t \in {"undefined", "null"}
    THEN Return(createErrorResponse(Null, Msg(<<"Invalid request: id is required">>), -32600))
    ELSE IF method.v = "tools/list"
    THEN [k |-> "list", v |-> handleToolsList(ts, id)]
    ELSE IF method.v = "tools/call"
    THEN IF Falsy(params) \/ TypeOf(params) # "object"
         THEN Return(createErrorResponse(id, Msg(<<"Invalid request: params must be an object">>), -32600))
         ELSE [k |-> "call", id |-> id, v |-> handleToolCall(ts, params, id)]
    ELSE Return(createErrorResponse(id, Msg(<<"Method '", method.v, "' not found">>), -32601))

(***************************************************************************)
(* The running machine.  An operator below takes and returns a record M:   *)
(*   out     what has been written to process.stdout, in order             *)
(*   ended   process.stdout.end() has been called                          *)
(*   lost    the lines whose response was written after the end            *)
(*   calls   the processMessage invocations awaiting, by line number       *)
(*   micro   the microtask queue                                           *)
(*   sent    the messages handed to processMessage so far, each with the   *)
(*           registry it found                                             *)
(*   invoked the lines whose message reached appendString                  *)
(*   buffer  the buffer of the stdin data handler                          *)
(***************************************************************************)
NoPromise    == [t |-> "none"]
Pending      == [t |-> "pending"]
Fulfilled(v) == [t |-> "fulfilled", value |-> v]
Rejected(v)  == [t |-> "rejected", value |-> v]

Job(line, job) == [line |-> line, job |-> job]

NewCall(id) ==
  [id |-> id, stringToAppend |-> Undefined, fileInfo |-> Undefined,
   pA |-> NoPromise, pT |-> NoPromise, pH |-> Pending, then |-> FALSE, io |-> "none"]

PutCall(M, line, call) ==
  [M EXCEPT !.calls = [l \in DOMAIN M.calls \cup {line} |->
                         IF l = line THEN call ELSE M.calls[l]]]

DropCall(M, line) ==
  [M EXCEPT !.calls = [l \in DOMAIN M.calls \ {line} |-> M.calls[l]]]

Enqueue(M, job) == [M EXCEPT !.micro = Append(@, job)]

\* console.log(text): a line on process.stdout, dropped once stdout has ended
consoleLog(M, text) ==
  IF M.ended THEN M ELSE [M EXCEPT !.out = Append(@, [kind |-> "log", text |-> text])]

\* sendResponse(response), for the message of the given line
sendResponse(M, line, response) ==
  IF Falsy(response) THEN M
  ELSE IF M.ended THEN [M EXCEPT !.lost = @ \cup {line}]
  ELSE [M EXCEPT !.out = Append(@, [kind |-> "response", line |-> line,
                                    json |-> Stringify(response)])]

\* an appendString that would ask for the file before it looks at its input
appendStringStartFileFirst(M0, line, call) ==
  LET validation == validateStringInput(call.stringToAppend)
      M          == [M0 EXCEPT !.invoked = @ \cup {line}]
  IN
  IF ~validation.valid
  THEN PutCall(M, line,
         [call EXCEPT !.pA = Rejected(appendStringCatch(Error(validation.error),
                                                        call.stringToAppend)),
                      !.io = "exists"])
  ELSE PutCall(consoleLog(consoleLog(M, "Input validation passed"),
                          "Checking create-prd.md file availability..."),
               line, [call EXCEPT !.pA = Pending, !.io = "exists"])

\* appendString up to "await createPrdFileExists()"
appendStringStart(M0, line, call) ==
  LET validation == validateStringInput(call.stringToAppend)
      M          == [M0 EXCEPT !.invoked = @ \cup {line}]
  IN
  IF ~validation.valid
  THEN PutCall(M, line,
         [call EXCEPT !.pA = Rejected(appendStringCatch(Error(validation.error),
                                                        call.stringToAppend))])
  ELSE PutCall(consoleLog(consoleLog(M, "Input validation passed"),
                          "Checking create-prd.md file availability..."),
               line, [call EXCEPT !.pA = Pending, !.io = "exists"])

\* a catch that would take any other error for a SyntaxError
processMessageCatchSyntax(error) ==
  createErrorResponse(Null, Msg(<<"Parse error: Invalid JSON">>), -32700)

\* a catch that would take a SyntaxError for any other error
processMessageCatchAll(error) ==
  createErrorResponse(Null, Msg(<<"Internal error: ">> \o Parts(error.message)), -32603)

\* the catch of processMessage: the response for a caught error
processMessageCatch(error) ==
  IF error.name = "SyntaxError"
  THEN createErrorResponse(Null, Msg(<<"Parse error: Invalid JSON">>), -32700)
  ELSE createErrorResponse(Null, Msg(<<"Internal error: ">> \o Parts(error.message)), -32603)

\* processMessage(message) up to "await this.handleRequest(request)"
processMessage(M, ts, message) ==
  LET line   == Len(M.sent) + 1
      M1     == [M EXCEPT !.sent = Append(@, [message |-> message, tools |-> ts])]
      parsed == JSONParse(message)
  IN
  IF message = <<>>
  THEN sendResponse(M1, line, createErrorResponse(Null, Msg(<<"Invalid message format">>), -32700))
  ELSE IF ~parsed.ok
  THEN sendResponse(M1, line, processMessageCatch(
         [name |-> "SyntaxError", message |-> Msg(<<"Unexpected token">>)]))
  ELSE IF parsed.value.t = "null"
  THEN sendResponse(M1, line, processMessageCatch(
         [name |-> "TypeError",
          message |-> Msg(<<"Cannot read properties of null (reading 'jsonrpc')">>)]))
  ELSE IF Get(parsed.value, "jsonrpc") # Str("2.0")
  THEN sendResponse(M1, line, createErrorResponse(Get(parsed.value, "id"),
         Msg(<<"Invalid JSON-RPC version">>), -32600))
  ELSE
    LET h == handleRequest(ts, parsed.value) IN
    CASE h.k = "return" ->
           Enqueue(PutCall(M1, line, [NewCall(Null) EXCEPT !.pH = Fulfilled(h.v)]),
                   Job(line, "P1"))
      [] h.k = "list" ->
           Enqueue(PutCall(consoleLog(M1, "Returning tools for discovery with metadata"),
                           line, [NewCall(Null) EXCEPT !.pH = Fulfilled(h.v)]),
                   Job(line, "P1"))
      [] h.k = "call" /\ h.v.k = "return" ->
           Enqueue(PutCall(M1, line, [NewCall(h.id) EXCEPT !.pT = Fulfilled(h.v.v)]),
                   Job(line, "RT1"))
      [] h.k = "call" /\ h.v.k = "append" ->
           LET M2 == appendStringStart(M1, line,
                       [NewCall(h.id) EXCEPT !.pT = Pending,
                                             !.stringToAppend = h.v.stringToAppend])
               M3 == IF M2.calls[line].pA.t = "rejected"
                     THEN Enqueue(M2, Job(line, "T1")) ELSE M2
           IN Enqueue(M3, Job(line, "RT1"))

\* a handler that would look for one line in each chunk
dataLoopOnce(M, ts) ==
  LET newlineIndex == IndexOfNewline(M.buffer, 1) IN
  IF newlineIndex = 0 THEN M
  ELSE LET message == TrimLine(SubSeq(M.buffer, 1, newlineIndex - 1))
           M1      == [M EXCEPT !.buffer = SubSeq(@, newlineIndex + 1, Len(@))]
       IN IF message # <<>> THEN processMessage(M1, ts, message) ELSE M1

\* the stdin 'data' handler after "buffer += chunk"
RECURSIVE dataLoop(_, _)
dataLoop(M, ts) ==
  LET newlineIndex == IndexOfNewline(M.buffer, 1) IN
  IF newlineIndex = 0 THEN M
  ELSE LET message == TrimLine(SubSeq(M.buffer, 1, newlineIndex - 1))
           M1      == [M EXCEPT !.buffer = SubSeq(@, newlineIndex + 1, Len(@))]
       IN dataLoop(IF message # <<>> THEN processMessage(M1, ts, message) ELSE M1, ts)

\* one job of the microtask queue
runJob(M, job) ==
  LET line == job.line
      call == M.calls[line]
  IN
  CASE job.job = "T1" ->   \* handleToolCall resumes after "await appendString(...)"
         LET c1 == [call EXCEPT !.pT = Fulfilled(handleToolCallResume(call.id, call.pA))]
             M1 == PutCall(M, line, c1)
         IN IF call.then THEN Enqueue(M1, Job(line, "RT2")) ELSE M1
    [] job.job = "RT1" ->  \* the promise of handleRequest adopts the one it returned
         LET M1 == PutCall(M, line, [call EXCEPT !.then = TRUE])
         IN IF call.pT.t = "fulfilled" THEN Enqueue(M1, Job(line, "RT2")) ELSE M1
    [] job.job = "RT2" ->  \* ... and settles with it
         Enqueue(PutCall(M, line, [call EXCEPT !.pH = call.pT]), Job(line, "P1"))
    [] job.job = "P1" ->   \* processMessage resumes after "await this.handleRequest(request)"
         DropCall(sendResponse(M, line, call.pH.value), line)

\* appendString settles: handleToolCall, when it is the caller and awaits it,
\* is scheduled to resume
Settle(M, line, settled) ==
  LET M1 == PutCall(M, line, [M.calls[line] EXCEPT !.pA = settled, !.io = "none"]) IN
  IF M.calls[line].pT.t = "none" THEN M1 ELSE Enqueue(M1, Job(line, "T1"))

\* appendString resumes when the file operation it awaits completes, having
\* observed the file in state f
appendString(M, line, f) ==
  LET call   == M.calls[line]
      input  == call.stringToAppend
      Throw(error) == Settle(M, line, Rejected(appendStringCatch(error, input)))
  IN
  CASE call.io = "exists" ->          \* await createPrdFileExists()
         PutCall(M, line, [call EXCEPT !.io = IF createPrdFileExists(f)
                                              THEN "info" ELSE "infoMissing"])
    [] call.io = "infoMissing" ->     \* await getCreatePrdFileInfo(), then throw
         LET fileInfo == getCreatePrdFileInfo(f)
             reason   == IF Falsy(Get(fileInfo, "error")) THEN <<"File not found">>
                         ELSE Parts(Get(fileInfo, "error"))
         IN Throw(Error(Msg(<<"create-prd.md file is ", "not accessible", ": ">> \o reason)))
    [] call.io = "info" ->            \* await getCreatePrdFileInfo(), call readCreatePrdFile()
         PutCall(consoleLog(consoleLog(M, "File info"), "Reading create-prd.md from"),
                 line, [call EXCEPT !.fileInfo = getCreatePrdFileInfo(f), !.io = "readExists"])
    [] call.io = "readExists" ->      \* readCreatePrdFile: await createPrdFileExists()
         IF createPrdFileExists(f)
         THEN PutCall(M, line, [call EXCEPT !.io = "readFile"])
         ELSE Throw(readCreatePrdFileMissing)
    [] call.io = "readFile" ->        \* readCreatePrdFile: await readFile(createPrdPath)
         LET r == readCreatePrdFile(f) IN
         IF ~r.ok THEN Throw(r.error)
         ELSE
           LET fileContent   == r.content
               trimmedString == validateStringInput(input).cleanedString
               M1 == consoleLog(M, "Successfully read create-prd.md")
           IN
           IF Length(Trim(fileContent)) = 0
           THEN Settle(M1, line, Rejected(appendStringCatch(
                  Error(Msg(<<"create-prd.md file is empty or contains only whitespace">>)), input)))
           ELSE
             LET combined == combinedContent(fileContent, trimmedString)
                 M2 == consoleLog(consoleLog(consoleLog(M1,
                         "Successfully appended string"),
                         "Original file size"),
                         "Total combined content length")
             IN Settle(M2, line, Fulfilled(formatMCPResponse(combined,
                  [originalFileSize |-> Num(Length(fileContent)),
                   appendedStringLength |-> Num(Length(trimmedString)),
                   validationInfo |-> Obj([originalLength |-> Num(Length(input.r)),
                                           cleanedLength |-> Num(Length(trimmedString))]),
                   fileInfo |-> Obj([size |-> Get(call.fileInfo, "size"),
                                     lastModified |-> Get(call.fileInfo, "lastModified")])])))

(***************************************************************************)
(* src/unnamed/part_000: the variant with three tools.  t[where][name] is  *)
(* the file of that name at the place: "text", "empty" or "absent" (a      *)
(* readFileSync of it throws).  The files of the two places have different *)
(* texts here, so that a result tells which of them was read.              *)
(* [fence] in a text stands for the three backquotes of a code fence.      *)
(***************************************************************************)
TemplateNames == {"create-prd.md", "generate-tasks.md", "process-task-list.md"}
Places        == {"primary", "alt"}
FileKinds     == {"text", "empty", "absent"}

Literal(text) == Run(text, 1)

TemplateText(where, name) == Run(name, IF where = "primary" THEN 1 ELSE 2)

\* readFileSync(path, "utf-8"): the content, or that it threw
readFileSync(t, where, name) ==
  CASE t[where][name] = "absent" -> [ok |-> FALSE]
    [] t[where][name] = "empty"  -> [ok |-> TRUE, content |-> <<>>]
    [] OTHER                     -> [ok |-> TRUE, content |-> TemplateText(where, name)]

\* a loader that would give up after the first place
readTemplateFileNoFallback(t, filename) ==
  LET first == readFileSync(t, "primary", filename) IN
  IF first.ok THEN [text |-> first.content, errors |-> 0]
  ELSE [text |-> Literal("Error: Could not read template file ") \o Literal(filename),
        errors |-> 2]

\* readTemplateFile(filename): the text returned, and the number of
\* console.error calls on the way
readTemplateFile(t, filename) ==
  LET first  == readFileSync(t, "primary", filename)
      second == readFileSync(t, "alt", filename)
  IN
  IF first.ok THEN [text |-> first.content, errors |-> 0]
  ELSE IF second.ok THEN [text |-> second.content, errors |-> 1]
  ELSE [text |-> Literal("Error: Could not read template file ") \o Literal(filename),
        errors |-> 2]

\* { content: [ { type: "text", text: resultText } ] }
TextResult(resultText) ==
  Obj([content |-> Arr(<<Obj([type |-> Str("text"), text |-> Txt(resultText)])>>)])

\* the handler of create-prd
createPrd(t, description, references) ==
  LET templateContent == readTemplateFile(t, "create-prd.md").text
      resultText ==
        Literal("Instruction:\n[fence]\n") \o templateContent
        \o Literal("\n[fence]\n\nFeature I want to build:\n[fence]\n") \o description.r
        \o Literal("\n[fence]")
  IN TextResult(IF Falsy(references) THEN resultText
                ELSE resultText \o Literal("\n\nReference this file to help you:\n[fence]\n")
                     \o references.r \o Literal("\n[fence]"))

\* the handler of generate-tasks
generateTasks(t, prd_file_content) ==
  LET templateContent == readTemplateFile(t, "generate-tasks.md").text IN
  TextResult(Literal("Product requirement descriptions:\n[fence]\n") \o prd_file_content.r
             \o Literal("\n[fence]\n\nCreate tasks using:\n[fence]\n") \o templateContent
             \o Literal("\n[fence]"))

\* the handler of process-task-list
processTaskList(t, selected_task_pointer) ==
  LET templateContent == readTemplateFile(t, "process-task-list.md").text IN
  TextResult(Literal("Please start on task ") \o selected_task_pointer.r
             \o Literal(" and use:\n[fence]\n") \o templateContent \o Literal("\n[fence]"))

(***************************************************************************)
(* The state.                                                              *)
(***************************************************************************)
VARIABLES
  tools,        \* this.tools, in insertion order
  isRunning,    \* this.isRunning
  stdin,        \* "idle": no listener yet; "flowing"; "closed": ended or destroyed
  buffer,       \* the buffer of the 'data' handler
  stdout,       \* the lines written to process.stdout
  stdoutEnded,  \* process.stdout.end() has been called
  lost,         \* the lines whose response was written after that
  calls,        \* the processMessage invocations awaiting
  micro,        \* the microtask queue
  sent,         \* the messages handed to processMessage so far
  invoked,      \* the lines whose message reached appendString
  received,     \* newline characters received so far
  file,         \* instructions/create-prd.md
  apiCalls,     \* calls of the public methods so far
  fileOps,      \* changes of the file so far
  stamp,        \* per tool name, when it was last registered (0: not registered)
  clock,        \* the number of successful registrations so far
  thrown,       \* what the last call of a public method threw (undefined: it returned)
  process,      \* failed: process.stdout has emitted 'error'; exitCode: the code the
                \* process has exited with (undefined: it runs); listeners: the times
                \* start() has attached its listeners to the process and its streams
  consumed,     \* the characters process.stdin has delivered to its 'data' listeners
  templates,    \* the variant with three tools: the template files at the two places
  results,      \* the variant: what its tool handlers have returned, in order
  stderr        \* the variant: the number of console.error calls of its loader

vars == <<tools, isRunning, stdin, buffer, stdout, stdoutEnded, lost, calls, micro,
          sent, invoked, received, file, apiCalls, fileOps, stamp, clock, thrown,
          process, consumed, templates, results, stderr>>

\* the state of the variant with three tools
variant == <<templates, results, stderr>>

\* the state of the server with one tool
server == <<tools, isRunning, stdin, buffer, stdout, stdoutEnded, lost, calls, micro,
            sent, invoked, received, file, apiCalls, stamp, clock, thrown, process,
            consumed>>

Machine ==
  [out |-> stdout, ended |-> stdoutEnded, lost |-> lost, calls |-> calls,
   micro |-> micro, sent |-> sent, invoked |-> invoked, buffer |-> buffer]

Becomes(M) ==
  /\ stdout' = M.out
  /\ stdoutEnded' = M.ended
  /\ lost' = M.lost
  /\ calls' = M.calls
  /\ micro' = M.micro
  /\ sent' = M.sent
  /\ invoked' = M.invoked
  /\ buffer' = M.buffer

\* a registerTool that would set the entry without looking for the name
registerToolUnchecked(ts, name, config) ==
  [tools |-> IF Has(ts, name) THEN ts
             ELSE MapSet(ts, [name |-> name, inputSchema |-> config.inputSchema]),
   thrown |-> Undefined]

\* registerTool(name, config): the Map it leaves, and what it throws
registerTool(ts, name, config) ==
  IF Has(ts, name)
  THEN [tools |-> ts,
        thrown |-> Error(Msg(<<"Tool '", name, "' is already registered">>))]
  ELSE [tools |-> MapSet(ts, [name |-> name, inputSchema |-> config.inputSchema]),
        thrown |-> Undefined]

\* unregisterTool(name): the Map it leaves, and what it throws
unregisterTool(ts, name) ==
  IF ~Has(ts, name)
  THEN [tools |-> ts, thrown |-> Error(Msg(<<"Tool '", name, "' is not registered">>))]
  ELSE [tools |-> MapDelete(ts, name), thrown |-> Undefined]

\* new MCPServer(): the constructor has run initialize(); the file is in one of
\* the given states
Constructed(files) ==
  /\ tools = registerTool(<<>>, "append-string", AppendConfig).tools
  /\ isRunning = FALSE
  /\ stdin = "idle"
  /\ buffer = <<>>
  /\ stdout = <<[kind |-> "log", text |-> "Tool registered successfully"]>>
  /\ stdoutEnded = FALSE
  /\ lost = {}
  /\ calls = <<>>
  /\ micro = <<>>
  /\ sent = <<>>
  /\ invoked = {}
  /\ received = 0
  /\ file \in files
  /\ apiCalls = 0
  /\ fileOps = 0
  /\ stamp = [n \in ToolNames |-> IF n = "append-string" THEN 1 ELSE 0]
  /\ clock = 1
  /\ thrown = Undefined
  /\ process = [failed |-> FALSE, exitCode |-> Undefined, listeners |-> 0]
  /\ consumed = <<>>
  /\ templates = [where \in Places |-> [name \in TemplateNames |-> "text"]]
  /\ results = <<>>
  /\ stderr = 0

(***************************************************************************)
(* The operations.  A macrotask runs only when the microtask queue is      *)
(* empty.                                                                  *)
(***************************************************************************)
Idle == micro = <<>> /\ process.exitCode = Undefined

\* the body of shutdown() past its isRunning guard
ShutdownBody(M) ==
  /\ isRunning' = FALSE
  /\ tools' = <<>>
  /\ stamp' = [n \in ToolNames |-> 0]
  /\ stdin' = IF stdin = "idle" THEN "idle" ELSE "closed"
  /\ Becomes([consoleLog(M, "MCP Server shutting down gracefully...") EXCEPT !.ended = TRUE])

\* shutdown()
shutdown(M) ==
  IF ~isRunning
  THEN /\ Becomes(consoleLog(M, "MCP Server is not running"))
       /\ UNCHANGED <<isRunning, tools, stamp, stdin>>
  ELSE ShutdownBody(M)

\* a start() that would not look at the flag
StartUnguarded(max) ==
  /\ Idle /\ apiCalls < max
  /\ UNCHANGED variant
  /\ UNCHANGED consumed
  /\ apiCalls' = apiCalls + 1
  /\ Becomes(consoleLog(Machine, "MCP Server initialized"))
  /\ isRunning' = TRUE
  /\ stdin' = IF stdin = "idle" THEN "flowing" ELSE stdin
  /\ process' = [process EXCEPT !.listeners = @ + 1]
  /\ thrown' = Undefined
  /\ UNCHANGED <<tools, received, file, fileOps, stamp, clock>>

\* server.start()
Start(max) ==
  /\ Idle /\ apiCalls < max
  /\ UNCHANGED variant
  /\ UNCHANGED consumed
  /\ apiCalls' = apiCalls + 1
  /\ IF isRunning
     THEN /\ Becomes(consoleLog(Machine, "MCP Server is already running"))
          /\ UNCHANGED <<isRunning, stdin, process>>
     ELSE /\ Becomes(consoleLog(Machine, "MCP Server initialized"))
          /\ isRunning' = TRUE
          /\ stdin' = IF stdin = "idle" THEN "flowing" ELSE stdin
          /\ process' = [process EXCEPT !.listeners = @ + 1]
  /\ thrown' = Undefined
  /\ UNCHANGED <<tools, received, file, fileOps, stamp, clock>>

\* server.shutdown(), called by the embedding program
Shutdown(max) ==
  /\ Idle /\ apiCalls < max
  /\ UNCHANGED process
  /\ UNCHANGED variant
  /\ UNCHANGED consumed
  /\ apiCalls' = apiCalls + 1
  /\ shutdown(Machine)
  /\ thrown' = Undefined
  /\ UNCHANGED <<received, file, fileOps, clock>>

\* server.registerTool(name, config); it throws when the name is registered
RegisterTool(name, max) ==
  /\ Idle /\ apiCalls < max
  /\ UNCHANGED process
  /\ UNCHANGED variant
  /\ UNCHANGED consumed
  /\ apiCalls' = apiCalls + 1
  /\ LET r == registerTool(tools, name, ConfigOf(name)) IN
       /\ tools' = r.tools
       /\ thrown' = r.thrown
       /\ IF r.thrown # Undefined
          THEN UNCHANGED <<stamp, clock, stdout>>
          ELSE /\ clock' = clock + 1
               /\ stamp' = [stamp EXCEPT ![name] = clock + 1]
               /\ stdout' = consoleLog(Machine, "Tool registered successfully").out
  /\ UNCHANGED <<isRunning, stdin, buffer, stdoutEnded, lost, calls, micro, sent, invoked,
                 received, file, fileOps>>

\* server.unregisterTool(name); it throws when the name is not registered
UnregisterTool(name, max) ==
  /\ Idle /\ apiCalls < max
  /\ UNCHANGED process
  /\ UNCHANGED variant
  /\ UNCHANGED consumed
  /\ apiCalls' = apiCalls + 1
  /\ LET r == unregisterTool(tools, name) IN
       /\ tools' = r.tools
       /\ thrown' = r.thrown
       /\ IF r.thrown # Undefined
          THEN UNCHANGED <<stamp, stdout>>
          ELSE /\ stamp' = [stamp EXCEPT ![name] = 0]
               /\ stdout' = consoleLog(Machine, "Tool unregistered successfully").out
  /\ UNCHANGED <<isRunning, stdin, buffer, stdoutEnded, lost, calls, micro, sent, invoked,
                 received, file, fileOps, clock>>

\* the number of newline characters of a chunk
Newlines(chunk) == Cardinality({i \in 1..Len(chunk) : chunk[i] = "\n"})

\* stdin 'data'
Data(chunk, max) ==
  /\ Idle /\ stdin = "flowing"
  /\ UNCHANGED process
  /\ UNCHANGED variant
  /\ received + Newlines(chunk) <= max
  /\ received' = received + Newlines(chunk)
  /\ consumed' = Concat(consumed, chunk)
  /\ Becomes(dataLoop([Machine EXCEPT !.buffer = Concat(@, chunk)], tools))
  /\ UNCHANGED <<tools, isRunning, stdin, file, apiCalls, fileOps, stamp, clock, thrown>>

\* an 'end' listener that would take what is left in the buffer for a message
EndFlushing ==
  /\ Idle /\ stdin = "flowing"
  /\ UNCHANGED process
  /\ UNCHANGED variant
  /\ UNCHANGED consumed
  /\ shutdown(consoleLog(IF TrimLine(buffer) # <<>>
                         THEN processMessage([Machine EXCEPT !.buffer = <<>>], tools,
                                             TrimLine(buffer))
                         ELSE Machine,
                         "Stdin ended, shutting down..."))
  /\ UNCHANGED <<received, file, apiCalls, fileOps, clock, thrown>>

\* stdin 'end'
End ==
  /\ Idle /\ stdin = "flowing"
  /\ UNCHANGED process
  /\ UNCHANGED variant
  /\ UNCHANGED consumed
  /\ shutdown(consoleLog(Machine, "Stdin ended, shutting down..."))
  /\ UNCHANGED <<received, file, apiCalls, fileOps, clock, thrown>>

\* a job that would leave the registry empty behind it
MicrotaskForgetting ==
  /\ micro # <<>>
  /\ UNCHANGED process
  /\ UNCHANGED variant
  /\ UNCHANGED consumed
  /\ Becomes(runJob([Machine EXCEPT !.micro = Tail(@)], Head(micro)))
  /\ tools' = <<>>
  /\ UNCHANGED <<isRunning, stdin, received, file, apiCalls, fileOps, stamp, clock, thrown>>

\* the next job of the microtask queue
Microtask ==
  /\ micro # <<>>
  /\ UNCHANGED process
  /\ UNCHANGED variant
  /\ UNCHANGED consumed
  /\ Becomes(runJob([Machine EXCEPT !.micro = Tail(@)], Head(micro)))
  /\ UNCHANGED <<tools, isRunning, stdin, received, file, apiCalls, fileOps, stamp, clock,
                 thrown>>

\* a file operation that would write the content a call returns to the file
FileOperationWriting(line) ==
  /\ Idle
  /\ UNCHANGED process
  /\ UNCHANGED variant
  /\ UNCHANGED consumed
  /\ line \in DOMAIN calls /\ calls[line].io # "none"
  /\ Becomes(appendString(Machine, line, file))
  /\ LET after == appendString(Machine, line, file).calls[line].pA IN
     file' = IF after.t = "fulfilled"
             THEN [file EXCEPT !.content = Get(after.value, "content").r]
             ELSE file
  /\ UNCHANGED <<tools, isRunning, stdin, received, apiCalls, fileOps, stamp, clock, thrown>>

\* a file operation that appendString awaits completes
FileOperation(line) ==
  /\ Idle
  /\ UNCHANGED process
  /\ UNCHANGED variant
  /\ UNCHANGED consumed
  /\ line \in DOMAIN calls /\ calls[line].io # "none"
  /\ Becomes(appendString(Machine, line, file))
  /\ UNCHANGED <<tools, isRunning, stdin, received, file, apiCalls, fileOps, stamp, clock,
                 thrown>>

\* appendString(input), called by a program that requires the module, as its
\* tests do; the call is kept under the key -n, n the number of the call
AppendString(input, max) ==
  /\ Idle /\ apiCalls < max
  /\ apiCalls' = apiCalls + 1
  /\ thrown' = Undefined
  /\ Becomes(appendStringStart(Machine, 0 - (apiCalls + 1),
                                [NewCall(Undefined) EXCEPT !.stringToAppend = input,
                                                           !.pH = NoPromise]))
  /\ UNCHANGED <<tools, isRunning, stdin, received, file, fileOps, stamp, clock, process>>
  /\ UNCHANGED variant
  /\ UNCHANGED consumed

\* process.stdout emits 'error' (the reader has closed the pipe); the listener
\* that start() installed logs to stderr and calls shutdown()
StdoutError ==
  /\ Idle /\ stdin # "idle" /\ ~process.failed
  /\ process' = [process EXCEPT !.failed = TRUE]
  /\ UNCHANGED variant
  /\ UNCHANGED consumed
  /\ shutdown(Machine)
  /\ UNCHANGED <<received, file, apiCalls, fileOps, clock, thrown>>

\* SIGINT or SIGTERM reaches the process of index.js, which has called
\* server.start(): the listener calls server.shutdown() and process.exit(0)
Signal ==
  /\ Idle /\ stdin # "idle"
  /\ UNCHANGED variant
  /\ UNCHANGED consumed
  /\ process' = [process EXCEPT !.exitCode = Num(0)]
  /\ shutdown(Machine)
  /\ UNCHANGED <<received, file, apiCalls, fileOps, clock, thrown>>

\* nothing is left for the event loop (stdin is destroyed, no file operation is
\* pending, no job is queued): the process exits with process.exitCode, which
\* nothing has set
Exit ==
  /\ Idle /\ stdin = "closed"
  /\ \A l \in DOMAIN calls : calls[l].io = "none"
  /\ process' = [process EXCEPT !.exitCode = Num(0)]
  /\ UNCHANGED variant
  /\ UNCHANGED consumed
  /\ UNCHANGED <<tools, isRunning, stdin, buffer, stdout, stdoutEnded, lost, calls, micro,
                 sent, invoked, received, file, apiCalls, fileOps, stamp, clock, thrown>>

\* something outside the server changes the file
FileChange(f) ==
  /\ Idle /\ fileOps < MaxFileOps
  /\ UNCHANGED process
  /\ UNCHANGED variant
  /\ UNCHANGED consumed
  /\ f # file
  /\ file' = f
  /\ fileOps' = fileOps + 1
  /\ UNCHANGED <<tools, isRunning, stdin, buffer, stdout, stdoutEnded, lost, calls, micro,
                 sent, invoked, received, apiCalls, stamp, clock, thrown>>

\* the variant: the SDK calls the handler of a tool with validated arguments
Returns(tool, arguments, result, errors, max) ==
  /\ Len(results) < max
  /\ results' = Append(results, [tool |-> tool, arguments |-> arguments, result |-> result])
  /\ stderr' = stderr + errors
  /\ UNCHANGED <<templates, fileOps>>
  /\ UNCHANGED server

CreatePrd(description, references, max) ==
  Returns("create-prd", [description |-> description, references |-> references],
          createPrd(templates, description, references),
          readTemplateFile(templates, "create-prd.md").errors, max)

GenerateTasks(prd_file_content, max) ==
  Returns("generate-tasks", [prd_file_content |-> prd_file_content],
          generateTasks(templates, prd_file_content),
          readTemplateFile(templates, "generate-tasks.md").errors, max)

ProcessTaskList(selected_task_pointer, max) ==
  Returns("process-task-list", [selected_task_pointer |-> selected_task_pointer],
          processTaskList(templates, selected_task_pointer),
          readTemplateFile(templates, "process-task-list.md").errors, max)

\* something outside the variant changes a template file
TemplateChange(where, name, kind) ==
  /\ fileOps < MaxChanges
  /\ templates[where][name] # kind
  /\ templates' = [templates EXCEPT ![where][name] = kind]
  /\ fileOps' = fileOps + 1
  /\ UNCHANGED <<results, stderr>>
  /\ UNCHANGED server

(***************************************************************************)
(* The server under a client that sends whole lines, one or two to a       *)
(* chunk, and then closes its end.                                         *)
(***************************************************************************)
CoreTexts == {"list", "callOk", "callBlank", "callUnknown", Garbage}

LineOf(text) == <<text, "\n">>

\* a line of one text; two JSON texts on a padded line; a blank line
CoreLines ==
  {LineOf(a) : a \in CoreTexts} \cup {<<" ", "list", "list", " ", "\n">>, <<" ", "\n">>}

CoreChunks == CoreLines \cup {a \o b : a \in CoreLines, b \in CoreLines}

Init == Constructed(FileStates)

Next ==
  \/ Start(MaxStarts)
  \/ \E chunk \in CoreChunks : Data(chunk, MaxLines)
  \/ End
  \/ Microtask
  \/ \E line \in 1..MaxLines : FileOperation(line)

Spec == Init /\ [][Next]_vars

(***************************************************************************)
(* The server under an embedding program that calls its public methods,    *)
(* and a client that sends one line to a chunk.                            *)
(***************************************************************************)
RegistryTexts ==
  {"list", "callEcho", "callEchoText", "callEchoNone", "callMissing", "callUnknown",
   "callUnknownNoArgs", "callNoName", "unknownMethod", "emptyMethod"}

InitRegistry == Constructed({FileOk})

NextRegistry ==
  \/ Start(MaxApiCalls)
  \/ Shutdown(MaxApiCalls)
  \/ \E name \in ToolNames : RegisterTool(name, MaxApiCalls)
  \/ \E name \in ToolNames : UnregisterTool(name, MaxApiCalls)
  \/ \E text \in RegistryTexts : Data(LineOf(text), MaxRequests)
  \/ Microtask

SpecRegistry == InitRegistry /\ [][NextRegistry]_vars

(***************************************************************************)
(* The server under a client that calls append-string, while something     *)
(* else replaces, empties, locks or removes create-prd.md.                 *)
(***************************************************************************)
AppendTexts == {"callOk", "callBlank", "callEmpty", "callLong", "callHarmful"}

NextAppend ==
  \/ Start(MaxStarts)
  \/ \E text \in AppendTexts : Data(LineOf(text), MaxRequests)
  \/ Microtask
  \/ \E line \in 1..MaxRequests : FileOperation(line)
  \/ \E f \in FileStates : FileChange(f)

SpecAppend == Init /\ [][NextAppend]_vars

(***************************************************************************)
(* The server under a client that sends one line to a chunk: every kind of *)
(* request, well formed or not.                                            *)
(***************************************************************************)
DispatchTexts ==
  {"list", "callOk", "callBlank", "callEmpty", "callLong", "callNumber", "callMissing",
   "callNoArgs", "callNoParams", "callUnknown", "unknownMethod", "noMethod", "methodNumber",
   "noId", "nullId", "bare", "version1", "noVersion", "number", "null", Garbage}

NextDispatch ==
  \/ Start(MaxStarts)
  \/ \E text \in DispatchTexts : Data(LineOf(text), MaxLines)
  \/ Microtask
  \/ \E line \in 1..MaxLines : FileOperation(line)

SpecDispatch == Init /\ [][NextDispatch]_vars

(***************************************************************************)
(* The server as the process of index.js, under a client that sends a line *)
(* and may close either end of the pipe.                                   *)
(***************************************************************************)
FatalTexts == {"list", "callOk", Garbage}

NextFatal ==
  \/ Start(MaxStarts)
  \/ \E text \in FatalTexts : Data(LineOf(text), MaxRequests)
  \/ End
  \/ StdoutError
  \/ Microtask
  \/ \E line \in 1..MaxRequests : FileOperation(line)
  \/ Exit

SpecFatal == Init /\ [][NextFatal]_vars

(***************************************************************************)
(* The append-string module under a program that calls appendString with   *)
(* any value.                                                              *)
(***************************************************************************)
Exact       == Run("sp", 1) \o Run("a", MaxLength) \o Run("nl", 1)
\* "## New Section\n\nNew content here", and the same after two newlines
NewSection ==
  Run("#", 2) \o Run("sp", 1) \o Run("New", 1) \o Run("sp", 1) \o Run("Section", 1)
  \o Run("nl", 2) \o Run("New", 1) \o Run("sp", 1) \o Run("content", 1)
  \o Run("sp", 1) \o Run("here", 1)
NewSectionPadded == Run("nl", 2) \o NewSection
ToolInputs ==
  {Undefined, Null, Num(123), Arr(<<Num(1), Num(2), Num(3)>>),
   Txt(<<>>), Txt(Run("sp", 3)), Txt(Run("sp", 1) \o Run("a", 3)),
   Txt(Exact), Txt(Run("a", MaxLength + 1)),
   Txt(Run("a", 1) \o Run("JavaScript:", 1)), Txt(Run("vbscript:", 1)),
   Txt(Run("data:text/html", 1) \o Run("a", 1)),
   Txt(Run("a", 1) \o Run("<script></script>", 1)),
   Txt(Run("<script>", 1) \o Run("a", 1)),
   Txt(Run("a", MaxLength) \o Run("javascript:", 1)),
   Txt(NewSection), Txt(NewSectionPadded),
   Txt(Run("sp", 1) \o Run("VBSCRIPT:", 1)), Txt(Run("Data:Text/Html", 1)),
   Txt(Run("a", 1) \o Run("<SCRIPT></Script>", 1) \o Run("nl", 1))}

NextTool ==
  \/ \E input \in ToolInputs : AppendString(input, MaxCalls)
  \/ \E n \in 1..MaxCalls : FileOperation(0 - n)

SpecTool == Init /\ [][NextTool]_vars

(***************************************************************************)
(* appendString called directly while something else changes the document  *)
(* between its file operations.                                            *)
(***************************************************************************)
ChangingInputs ==
  {Undefined, Null, Num(123), Arr(<<Num(1), Num(2), Num(3)>>), Arr(<<>>),
   Txt(Run("sp", 3)), Txt(Run("sp", 1) \o Run("a", 3))}

NextChanging ==
  \/ \E input \in ChangingInputs : AppendString(input, MaxCalls)
  \/ \E n \in 1..MaxCalls : FileOperation(0 - n)
  \/ \E f \in FileStates : FileChange(f)

SpecChanging == Init /\ [][NextChanging]_vars

(***************************************************************************)
(* The server started and shut down again and again by the program that    *)
(* holds it, which ends on a signal as index.js does.                      *)
(***************************************************************************)
NextLifecycle ==
  \/ Start(MaxApiCalls)
  \/ Shutdown(MaxApiCalls)
  \/ \E text \in {"list", "callOk"} : Data(LineOf(text), MaxRequests)
  \/ Microtask
  \/ \E line \in 1..MaxRequests : FileOperation(line)
  \/ Signal

SpecLifecycle == InitRegistry /\ [][NextLifecycle]_vars

(***************************************************************************)
(* The server under a client that calls tools, after an embedding program  *)
(* has or has not registered a second tool.                                *)
(***************************************************************************)
ToolCallTexts ==
  {"callOk", "callEcho", "callEchoText", "callNoName", "callNameNumber", "callUnknown",
   "callUnknownNoArgs", "callNoArgs", "callMissing", "callNumber"}

NextToolCall ==
  \/ Start(MaxApiCalls)
  \/ RegisterTool("echo", MaxApiCalls)
  \/ \E text \in ToolCallTexts : Data(LineOf(text), MaxRequests)
  \/ Microtask
  \/ \E line \in 1..MaxRequests : FileOperation(line)

SpecToolCall == InitRegistry /\ [][NextToolCall]_vars

(***************************************************************************)
(* The server under a client whose lines reach it in chunks of any shape:  *)
(* whole lines, several lines, pieces of a line, and then the end.         *)
(***************************************************************************)
\* the unknownMethod request reaches the server in two pieces only
FramingChunks ==
  {<<"list", "\n">>, <<" ", "\n", "list", "\n">>, <<"\n">>, <<"list">>,
   <<FirstHalf("unknownMethod")>>, <<SecondHalf("unknownMethod"), "\n">>,
   <<" ", "\n", FirstHalf("unknownMethod")>>}

\* what the buffer holds once the handler has taken the lines of the chunk
LeftOver(chunk) ==
  LET b == Concat(buffer, chunk)
      last == {i \in 1..Len(b) : b[i] = "\n"}
  IN IF last = {} THEN Len(b) ELSE Len(b) - (CHOOSE i \in last : \A j \in last : j <= i)

NextFraming ==
  \/ Start(MaxStarts)
  \/ \E chunk \in FramingChunks : LeftOver(chunk) <= MaxPending /\ Data(chunk, MaxLines)
  \/ End
  \/ Microtask

SpecFraming == InitRegistry /\ [][NextFraming]_vars

(***************************************************************************)
(* The variant with three tools under a client that calls its tools while  *)
(* the template files come and go.                                         *)
(***************************************************************************)
Strings == {Txt(<<>>), Txt(Run("a", 1))}

NextTemplates ==
  \/ \E references \in Strings \cup {Undefined} :
       CreatePrd(Txt(Run("a", 1)), references, MaxCalls)
  \/ GenerateTasks(Txt(Run("a", 1)), MaxCalls)
  \/ ProcessTaskList(Txt(Run("a", 1)), MaxCalls)
  \/ \E where \in Places, name \in TemplateNames, kind \in FileKinds :
       TemplateChange(where, name, kind)

InitTemplates == Constructed({FileOk})

SpecTemplates == InitTemplates /\ [][NextTemplates]_vars

(***************************************************************************)
(* What the claims speak of.                                               *)
(***************************************************************************)
\* the positions of stdout that hold a response, and those answering a line
Responses == {i \in 1..Len(stdout) : stdout[i].kind = "response"}
ResponsesTo(line) == {i \in Responses : stdout[i].line = line}

ErrorOf(json) == Get(json, "error")
CodeOf(json)  == Get(ErrorOf(json), "code")

\* the request a sent message parses to (undefined when it is not JSON)
RequestOf(s) ==
  IF JSONParse(s.message).ok THEN JSONParse(s.message).value ELSE Undefined

\* the message is a tools/call that the dispatcher hands to handleToolCall
IsToolCall(s) ==
  LET r == RequestOf(s) IN
  /\ Get(r, "jsonrpc") = Str("2.0")
  /\ Get(r, "id").t \notin {"undefined", "null"}
  /\ Get(r, "method") = Str("tools/call")
  /\ Get(r, "params").t = "object"

NameOf(s)      == Get(Get(RequestOf(s), "params"), "name")
ArgumentsOf(s) == Get(Get(RequestOf(s), "params"), "arguments")

\* the fields the schema of the named tool marks required, in the registry ts
RequiredOf(ts, name) ==
  LET r == Get(getTool(ts, name).inputSchema, "required") IN
  IF r.t = "array" THEN {r.v[i].v : i \in 1..Len(r.v)} ELSE {}

\* C1: the responses on stdout are in the order in which their request lines
\* were received.
C1_ResponsesInArrivalOrder ==
  \A i, j \in Responses : i < j => stdout[i].line < stdout[j].line

\* the lines whose message is inside appendString, not yet answered
InAppend == {l \in DOMAIN calls : calls[l].pA.t # "none"}

\* C2: at most one message is being handled at any time, so two invocations of
\* the append handler are never in flight together.
C2_OneMessageAtATime == Cardinality(InAppend) <= 1

\* C3: when end-of-input has closed stdout, no call is in flight: every line
\* dispatched before it has its response on stdout, none was written after the
\* close.
C3_NoCallInFlightAtShutdown ==
  stdoutEnded =>
    \A l \in 1..Len(sent) : l \notin DOMAIN calls /\ l \notin lost /\ ResponsesTo(l) # {}

\* the message ends with the parts of inner
Carries(message, inner) ==
  /\ message.t = "string" /\ "p" \in DOMAIN message
  /\ inner.t = "string" /\ "p" \in DOMAIN inner
  /\ Len(inner.p) <= Len(message.p)
  /\ SubSeq(message.p, Len(message.p) - Len(inner.p) + 1, Len(message.p)) = inner.p

\* C4: when appendString has failed, the response of the tools/call is an
\* error with code -32603 whose message carries the handler's failure message.
C4_HandlerFailureMessage ==
  \A l \in DOMAIN calls :
    calls[l].pA.t = "rejected" /\ calls[l].pT.t = "fulfilled" =>
      /\ CodeOf(calls[l].pT.value) = Num(-32603)
      /\ Carries(Get(ErrorOf(calls[l].pT.value), "message"),
                 Get(Get(calls[l].pA.value, "error"), "message"))

\* the message is a call of append-string with an empty or whitespace-only string
IsBlankAppend(s) ==
  /\ IsToolCall(s)
  /\ NameOf(s) = Str("append-string")
  /\ LET a == Get(ArgumentsOf(s), "stringToAppend") IN
       a.t = "string" /\ "r" \in DOMAIN a /\ Length(Trim(a.r)) = 0

\* C5: the response to an append-string call with an empty or whitespace-only
\* string is the README's Error Response: the request's id, and an error with
\* the validation message, code 'APPEND_ERROR' and details of operation,
\* inputLength and inputType.
C5_ReadmeErrorResponse ==
  \A l \in 1..Len(sent) : \A i \in ResponsesTo(l) :
    IsBlankAppend(sent[l]) =>
      LET json == stdout[i].json IN
      /\ Get(json, "id") = Get(RequestOf(sent[l]), "id")
      /\ Get(ErrorOf(json), "message") =
           Msg(<<"String to append cannot be empty or contain only whitespace">>)
      /\ CodeOf(json) = Str("APPEND_ERROR")
      /\ HasKey(Get(ErrorOf(json), "details"), "operation")
      /\ HasKey(Get(ErrorOf(json), "details"), "inputLength")
      /\ HasKey(Get(ErrorOf(json), "details"), "inputType")

\* the line was answered, or its message is being handled
Handled(l) == l \in DOMAIN calls \/ l \in lost \/ ResponsesTo(l) # {}

\* C6: a message that is not JSON has exactly one response, with code -32700
\* and id null, and the lines dispatched after it are handled as well.
C6_ParseError ==
  \A l \in 1..Len(sent) :
    ~JSONParse(sent[l].message).ok =>
      /\ l \notin DOMAIN calls /\ l \notin lost
      /\ Cardinality(ResponsesTo(l)) = 1
      /\ \A i \in ResponsesTo(l) :
           /\ CodeOf(stdout[i].json) = Num(-32700)
           /\ HasKey(stdout[i].json, "id") /\ Get(stdout[i].json, "id") = Null
           /\ ~HasKey(stdout[i].json, "result")
      /\ \A k \in (l + 1)..Len(sent) : Handled(k)

\* a line that is not JSON was answered, and so was the tools/list sent after it
C6_Witness ==
  \E l \in 1..Len(sent) :
    /\ ~JSONParse(sent[l].message).ok
    /\ l + 1 <= Len(sent) /\ sent[l + 1].message = <<"list">>
    /\ \E i \in ResponsesTo(l), j \in ResponsesTo(l + 1) :
         i < j /\ HasKey(stdout[j].json, "result")

\* C7: every line on stdout is a serialized response.
C7_OnlyResponsesOnStdout ==
  \A i \in 1..Len(stdout) : stdout[i].kind = "response"

\* the message calls a tool of the registry it found, with an arguments object
\* that has every required field
IsCompleteCall(s) ==
  /\ IsToolCall(s)
  /\ NameOf(s).t = "string" /\ Has(s.tools, NameOf(s).v)
  /\ ArgumentsOf(s).t = "object"
  /\ \A f \in RequiredOf(s.tools, NameOf(s).v) : HasKey(ArgumentsOf(s), f)

\* C8: a call of a registered tool with its required arguments is never
\* answered 'not found' or 'not implemented' (code -32601).
C8_RegisteredToolDispatched ==
  \A l \in 1..Len(sent) : \A i \in ResponsesTo(l) :
    IsCompleteCall(sent[l]) => CodeOf(stdout[i].json) # Num(-32601)

\* the message calls a tool by a string that the registry it found does not have
IsUnknownToolCall(s) ==
  IsToolCall(s) /\ NameOf(s).t = "string" /\ ~Has(s.tools, NameOf(s).v)

\* the line has one response, with code -32601, once the microtasks have run,
\* and its message never reached a handler
AnsweredNotFound(l) ==
  /\ l \notin invoked /\ l \notin lost
  /\ Idle => Cardinality(ResponsesTo(l)) = 1
  /\ \A i \in ResponsesTo(l) : CodeOf(stdout[i].json) = Num(-32601)

\* C9 as stated: a call naming any string that is not registered is answered
\* with code -32601 and invokes no handler.
C9_UnknownToolAsStated ==
  \A l \in 1..Len(sent) : IsUnknownToolCall(sent[l]) => AnsweredNotFound(l)

\* C9: a call naming a non-empty string that is not registered is answered
\* with code -32601 and invokes no handler, whatever its arguments are.
C9_UnknownTool ==
  \A l \in 1..Len(sent) :
    IsUnknownToolCall(sent[l]) /\ NameOf(sent[l]).v # "" => AnsweredNotFound(l)

\* a call of an unregistered tool without arguments was answered
C9_Witness ==
  \E l \in 1..Len(sent) :
    /\ sent[l].message = <<"callUnknownNoArgs">>
    /\ ResponsesTo(l) # {}

\* the registered names, earliest registration first, by the stamps
RECURSIVE ByStamp(_)
ByStamp(names) ==
  IF names = {} THEN <<>>
  ELSE LET n == CHOOSE n \in names : \A m \in names : stamp[n] <= stamp[m]
       IN <<n>> \o ByStamp(names \ {n})

\* the names a tools/list response lists, in its order
Listed(response) ==
  LET ts == Get(Get(response, "result"), "tools") IN
  [i \in 1..Len(ts.v) |-> Get(ts.v[i], "name").v]

IsListResponse(p) ==
  p.t = "fulfilled" /\ Get(Get(p.value, "result"), "tools").t = "array"

\* C10: after any registerTool and unregisterTool calls, a tools/list response
\* lists the registered tools, each once, in the order of their latest
\* registration.
C10_ListInRegistrationOrder ==
  \A l \in DOMAIN calls :
    IsListResponse(calls[l].pH) =>
      Listed(calls[l].pH.value) = ByStamp({n \in ToolNames : stamp[n] > 0})

\* tools/list answers after echo was registered and append-string was
\* unregistered and registered again
C10_Witness ==
  \E l \in DOMAIN calls :
    /\ IsListResponse(calls[l].pH)
    /\ Listed(calls[l].pH.value) = <<"echo", "append-string">>

\* C11: registerTool of a registered name throws the duplicate-tool error and
\* unregisterTool of an absent name throws the not-registered error, both
\* leaving the registry as it was; any other call of the two adds the named
\* entry at the end, or removes the named entry and keeps the order of the rest.
C11_RegistryCalls ==
  [][\A name \in ToolNames :
       /\ RegisterTool(name, MaxApiCalls) =>
            IF \E i \in 1..Len(tools) : tools[i].name = name
            THEN /\ tools' = tools
                 /\ Get(thrown', "message") = Msg(<<"Tool '", name, "' is already registered">>)
            ELSE /\ thrown' = Undefined
                 /\ Len(tools') = Len(tools) + 1
                 /\ SubSeq(tools', 1, Len(tools)) = tools
                 /\ tools'[Len(tools')].name = name
       /\ UnregisterTool(name, MaxApiCalls) =>
            IF \E i \in 1..Len(tools) : tools[i].name = name
            THEN /\ thrown' = Undefined
                 /\ \E i \in 1..Len(tools) :
                      /\ tools[i].name = name
                      /\ tools' = SubSeq(tools, 1, i - 1) \o SubSeq(tools, i + 1, Len(tools))
            ELSE /\ tools' = tools
                 /\ Get(thrown', "message") = Msg(<<"Tool '", name, "' is not registered">>)
    ]_vars

\* registerTool('echo') has just thrown on a registry that holds echo first
C11_Witness ==
  /\ Get(thrown, "message") = Msg(<<"Tool '", "echo", "' is already registered">>)
  /\ Len(tools) = 2 /\ tools[1].name = "echo"

\* the field is in the written object, with a value other than null
Populated(json, field) ==
  json.t = "object" /\ field \in DOMAIN json.v /\ json.v[field].t # "null"

\* C12: every response written has exactly one of result and error populated.
C12_ResultOrError ==
  \A i \in Responses :
    Populated(stdout[i].json, "result") # Populated(stdout[i].json, "error")

\* a tools/call was answered with a result and another one, whose handler
\* failed, with an error
C12_Witness ==
  \E i, j \in Responses :
    /\ Populated(stdout[i].json, "result")
    /\ Get(Get(stdout[i].json, "result"), "content").t = "string"
    /\ CodeOf(stdout[j].json) = Num(-32603)

\* the message parsed to an object
IsParsedObject(s) == RequestOf(s).t = "object"

\* C13: a response to a parsed request that has an id carries that id.
C13_SameId ==
  \A l \in 1..Len(sent) : \A i \in ResponsesTo(l) :
    IsParsedObject(sent[l]) /\ "id" \in DOMAIN RequestOf(sent[l]).v =>
      /\ "id" \in DOMAIN stdout[i].json.v
      /\ stdout[i].json.v["id"] = RequestOf(sent[l]).v["id"]

\* the requests with ids 18 (version 1.0) and 3 (the handler fails) were
\* answered with errors
C13_Witness ==
  \E i, j \in Responses :
    /\ sent[stdout[i].line].message = <<"version1">> /\ CodeOf(stdout[i].json) = Num(-32600)
    /\ sent[stdout[j].line].message = <<"callBlank">> /\ CodeOf(stdout[j].json) = Num(-32603)

\* C14: a parsed object whose jsonrpc is not "2.0" is answered with code
\* -32600 and an id field: the request's id when it has one, null otherwise.
C14_InvalidVersion ==
  \A l \in 1..Len(sent) : \A i \in ResponsesTo(l) :
    IsParsedObject(sent[l]) /\ Get(RequestOf(sent[l]), "jsonrpc") # Str("2.0") =>
      /\ CodeOf(stdout[i].json) = Num(-32600)
      /\ "id" \in DOMAIN stdout[i].json.v
      /\ stdout[i].json.v["id"] =
           IF "id" \in DOMAIN RequestOf(sent[l]).v THEN RequestOf(sent[l]).v["id"] ELSE Null

\* C15: a parsed object with jsonrpc "2.0" and no id (absent or null) is
\* answered with code -32600 and id null, whatever its method is.
C15_MissingId ==
  \A l \in 1..Len(sent) : \A i \in ResponsesTo(l) :
    /\ IsParsedObject(sent[l])
    /\ Get(RequestOf(sent[l]), "jsonrpc") = Str("2.0")
    /\ Get(RequestOf(sent[l]), "id").t \in {"undefined", "null"}
    => /\ CodeOf(stdout[i].json) = Num(-32600)
       /\ "id" \in DOMAIN stdout[i].json.v
       /\ stdout[i].json.v["id"] = Null

\* the message is a request with jsonrpc "2.0", an id and a string method that
\* is neither tools/list nor tools/call
IsOtherMethod(s) ==
  LET r == RequestOf(s) IN
  /\ Get(r, "jsonrpc") = Str("2.0")
  /\ Get(r, "id").t \notin {"undefined", "null"}
  /\ Get(r, "method").t = "string"
  /\ Get(r, "method").v \notin {"tools/list", "tools/call"}

\* the line has one response once the microtasks have run: the error -32601
\* "Method '<m>' not found" with the request's id, the same whatever the
\* registry holds, and its message never reached a handler
AnsweredMethodNotFound(l) ==
  /\ l \notin invoked /\ l \notin lost
  /\ Idle => Cardinality(ResponsesTo(l)) = 1
  /\ \A i \in ResponsesTo(l) :
       stdout[i].json =
         Obj([jsonrpc |-> Str("2.0"),
              id |-> Get(RequestOf(sent[l]), "id"),
              error |-> Obj([code |-> Num(-32601),
                             message |-> Msg(<<"Method '",
                                               Get(RequestOf(sent[l]), "method").v,
                                               "' not found">>)])])

\* C16 as stated: a request with any string method other than tools/list and
\* tools/call is answered "Method '<m>' not found" with code -32601.
C16_OtherMethodAsStated ==
  \A l \in 1..Len(sent) : IsOtherMethod(sent[l]) => AnsweredMethodNotFound(l)

\* C16: a request with a non-empty string method other than tools/list and
\* tools/call is answered "Method '<m>' not found" with code -32601, and
\* neither the registry nor a handler has a part in the answer.
C16_OtherMethod ==
  \A l \in 1..Len(sent) :
    IsOtherMethod(sent[l]) /\ Get(RequestOf(sent[l]), "method").v # "" =>
      AnsweredMethodNotFound(l)

\* a request with method 'ping' was answered by a server whose registry was
\* empty
C16_Witness ==
  \E l \in 1..Len(sent) :
    /\ sent[l].message = <<"unknownMethod">>
    /\ sent[l].tools = <<>>
    /\ ResponsesTo(l) # {}

\* the required fields of the tool the message calls, in the order of its
\* schema, and those the arguments of the message lack
RequiredSeq(s) ==
  LET r == Get(getTool(s.tools, NameOf(s).v).inputSchema, "required") IN
  IF r.t = "array" THEN [i \in 1..Len(r.v) |-> r.v[i].v] ELSE <<>>

Lacking(s) == {i \in 1..Len(RequiredSeq(s)) : RequiredSeq(s)[i] \notin DOMAIN ArgumentsOf(s).v}

\* the message calls a registered tool with an arguments mapping that lacks a
\* required field
IsIncompleteCall(s) ==
  /\ IsToolCall(s)
  /\ NameOf(s).t = "string" /\ NameOf(s).v # "" /\ Has(s.tools, NameOf(s).v)
  /\ ArgumentsOf(s).t = "object"
  /\ Lacking(s) # {}

IsRegisteredCall(s) ==
  /\ IsToolCall(s)
  /\ NameOf(s).t = "string" /\ NameOf(s).v # "" /\ Has(s.tools, NameOf(s).v)

\* the stringToAppend of the message is not a string, is empty after trimming
\* or is longer than the maximum
IsBadString(s) ==
  LET a == Get(ArgumentsOf(s), "stringToAppend") IN
  \/ a.t # "string"
  \/ "r" \in DOMAIN a /\ (Length(Trim(a.r)) = 0 \/ Length(Trim(a.r)) > MaxLength)

\* the message calls a registered tool with bad or missing arguments
IsBadArguments(s) ==
  /\ IsRegisteredCall(s)
  /\ \/ ArgumentsOf(s).t # "object"
     \/ Lacking(s) # {}
     \/ NameOf(s).v = "append-string" /\ IsBadString(s)

\* C17: a call of a registered tool with bad or missing arguments is answered
\* with code -32602, and when the arguments are a mapping the message names
\* the offending field.
C17_InvalidParams ==
  \A l \in 1..Len(sent) : \A i \in ResponsesTo(l) :
    IsBadArguments(sent[l]) =>
      /\ CodeOf(stdout[i].json) = Num(-32602)
      /\ ArgumentsOf(sent[l]).t = "object" =>
           Contains(Get(ErrorOf(stdout[i].json), "message"), "stringToAppend")

\* the tools a written tools/list response lists, and the required fields it
\* shows for the tool at position n
ListedTools(json) == Get(Get(json, "result"), "tools")

ListedRequired(json, n) ==
  LET r == Get(Get(ListedTools(json).v[n], "inputSchema"), "required") IN
  IF r.t = "array" THEN {r.v[i].v : i \in 1..Len(r.v)} ELSE {}

\* the message calls the tool that the list response shows at position n, with
\* every field the response shows as required
SuppliesListed(s, json, n) ==
  /\ IsToolCall(s)
  /\ NameOf(s) = Get(ListedTools(json).v[n], "name")
  /\ ArgumentsOf(s).t = "object"
  /\ \A f \in ListedRequired(json, n) : f \in DOMAIN ArgumentsOf(s).v

\* C19: after a tools/list response, a call of a tool it lists that supplies
\* every field the response shows as required is never answered 'Missing
\* required parameter'.
C19_ListThenCall ==
  \A i \in Responses :
    ListedTools(stdout[i].json).t = "array" =>
      \A l \in (stdout[i].line + 1)..Len(sent) :
        \A n \in 1..Len(ListedTools(stdout[i].json).v) :
          SuppliesListed(sent[l], stdout[i].json, n) =>
            \A j \in ResponsesTo(l) :
              ~Contains(Get(ErrorOf(stdout[j].json), "message"), "Missing required parameter: ")

\* tools/list was answered, and then a call of append-string with an empty
\* stringToAppend
C19_Witness ==
  \E i, j \in Responses :
    /\ i < j
    /\ sent[stdout[i].line].message = <<"list">>
    /\ sent[stdout[j].line].message = <<"callEmpty">>
    /\ stdout[i].line < stdout[j].line
    /\ SuppliesListed(sent[stdout[j].line], stdout[i].json, 1)

\* C20: when the handler has returned, the result of the response is the value
\* it returned if that is an object with a content field, and {content: value}
\* otherwise; either way the result has a content field.
C20_ResultNormalized ==
  \A l \in DOMAIN calls :
    calls[l].pA.t = "fulfilled" /\ calls[l].pT.t = "fulfilled" =>
      LET value  == calls[l].pA.value
          result == Get(calls[l].pT.value, "result")
      IN
      /\ "error" \notin DOMAIN calls[l].pT.value.v
      /\ result.t = "object" /\ "content" \in DOMAIN result.v
      /\ IF value.t = "object" /\ "content" \in DOMAIN value.v
                               /\ value.v["content"].t # "undefined"
         THEN result = value
         ELSE result = Obj([content |-> value])

\* appendString has returned its object of content and metadata, and
\* handleToolCall has made the response of it
C20_Witness ==
  \E l \in DOMAIN calls :
    /\ calls[l].pA.t = "fulfilled" /\ calls[l].pT.t = "fulfilled"
    /\ Get(calls[l].pA.value, "metadata").t = "object"

\* the line has one response, with code -32603 and id null, and the lines
\* dispatched after it are handled as well
AnsweredInternalError(l) ==
  /\ l \notin DOMAIN calls /\ l \notin lost
  /\ Cardinality(ResponsesTo(l)) = 1
  /\ \A i \in ResponsesTo(l) :
       /\ CodeOf(stdout[i].json) = Num(-32603)
       /\ Get(stdout[i].json, "id") = Null
  /\ \A k \in (l + 1)..Len(sent) : Handled(k)

\* the message is JSON for a value that is not an object
IsParsedNonObject(s) ==
  JSONParse(s.message).ok /\ JSONParse(s.message).value.t # "object"

C22_StdoutErrorIsFatal ==
  process.failed =>
    /\ ~isRunning /\ stdoutEnded
    /\ process.exitCode # Undefined => process.exitCode # Num(0)

\* the calls of appendString made so far, the input of each and, once it has
\* failed, the message of the object it has thrown
Appends == {l \in DOMAIN calls : calls[l].pA.t # "none"}
InputOf(l) == calls[l].stringToAppend
FailureOf(l) == Get(Get(calls[l].pA.value, "error"), "message")

\* the call has failed in the validation of its input
IsValidationFailure(l) ==
  /\ calls[l].pA.t = "rejected"
  /\ \E part \in {"String to append is required",
                   "String to append must be a string type, got ",
                   "String to append cannot be empty or contain only whitespace",
                   "String to append is too long (",
                   "String to append contains potentially harmful content"} :
       Contains(FailureOf(l), part)

FailsWith(l, message) == calls[l].pA.t = "rejected" /\ FailureOf(l) = Msg(message)

\* C23: the validation rejects null and undefined first, then any other value
\* that is not a string (naming its type), then a string that is empty after
\* trimming, then one longer than 10,000 characters after trimming (naming
\* its length); a string of exactly 10,000 trimmed characters is accepted, and
\* what is appended is the trimmed string.
C23_ValidationOrder ==
  \A l \in Appends :
    LET x == InputOf(l) IN
    CASE x.t \in {"undefined", "null"} ->
           FailsWith(l, <<"String to append is required">>)
      [] x.t \in {"number", "boolean"} ->
           FailsWith(l, <<"String to append must be a string type, got ", x.t>>)
      [] x.t \in {"array", "object"} ->
           FailsWith(l, <<"String to append must be a string type, got ", "object">>)
      [] x.t = "string" /\ Length(Trim(x.r)) = 0 ->
           FailsWith(l, <<"String to append cannot be empty or contain only whitespace">>)
      [] x.t = "string" /\ Length(Trim(x.r)) > 10000 ->
           FailsWith(l, <<"String to append is too long (", ToString(Length(Trim(x.r))),
                          " characters, maximum 10,000)">>)
      [] x.t = "string" /\ Length(Trim(x.r)) = 10000 ->
           /\ ~IsValidationFailure(l)
           /\ calls[l].pA.t = "fulfilled" =>
                /\ Get(Get(calls[l].pA.value, "metadata"), "appendedStringLength") = Num(10000)
                /\ Get(calls[l].pA.value, "content") =
                     Txt(file.content \o Run("nl", 2) \o Run("a", 10000))
      [] OTHER -> TRUE

\* a call with 10,000 characters between a space and a newline has succeeded,
\* and a call with 10,001 characters has failed
C23_Witness ==
  \E k, l \in Appends :
    /\ InputOf(k) = Txt(Exact) /\ calls[k].pA.t = "fulfilled"
    /\ InputOf(l) = Txt(Run("a", 10001)) /\ calls[l].pA.t = "rejected"

\* the characters of a text, whatever runs it is written in: adjacent runs of
\* one class are one run
RECURSIVE Merged(_)
Merged(s) ==
  IF Len(s) < 2 THEN s
  ELSE IF s[1].c = s[2].c
       THEN Merged(<<[c |-> s[1].c, n |-> s[1].n + s[2].n]>> \o SubSeq(s, 3, Len(s)))
       ELSE <<s[1]>> \o Merged(Tail(s))

\* the text is D, two newline characters and trim(S), for the document D and
\* the input S
IsCombined(text, D, S) ==
  /\ text.t = "string" /\ "r" \in DOMAIN text
  /\ Merged(text.r) = Merged(D \o <<[c |-> "nl", n |-> 2]>> \o Trim(S))

\* the responses on stdout whose result has a content
Contents == {i \in Responses : Get(Get(stdout[i].json, "result"), "content").t = "string"}

\* C24: with the document fixed, every append call that returns, alone,
\* repeated or overlapping another, returns as content the document, two
\* newline characters and the trimmed input.
C24_SameContentEveryCall ==
  /\ \A l \in Appends :
       calls[l].pA.t = "fulfilled" =>
         IsCombined(Get(calls[l].pA.value, "content"), file.content, InputOf(l).r)
  /\ \A i \in Contents :
       IsCombined(Get(Get(stdout[i].json, "result"), "content"), file.content,
                  Get(ArgumentsOf(sent[stdout[i].line]), "stringToAppend").r)

\* two calls with the same input, received in one chunk, have both been
\* answered with a content
C24_Witness ==
  \E i, j \in Contents :
    /\ stdout[i].line = 1 /\ stdout[j].line = 2
    /\ sent[1].message = sent[2].message
    /\ received = 2 /\ Cardinality(InAppend) = 0

\* the calls of the scenario: the document is "# Create PRD\n\nOriginal
\* content", the input trims to "## New Section\n\nNew content here", and the
\* call has returned
Scenario ==
  {l \in Appends : /\ file.content = DocText
                   /\ InputOf(l).t = "string" /\ "r" \in DOMAIN InputOf(l)
                   /\ Trim(InputOf(l).r) = NewSection
                   /\ calls[l].pA.t = "fulfilled"}

\* "# Create PRD\n\nOriginal content\n\n## New Section\n\nNew content here"
ScenarioContent == DocText \o Run("nl", 2) \o NewSection

AppendedStringLength(l) ==
  Get(Get(calls[l].pA.value, "metadata"), "appendedStringLength")

\* C25 as stated: in the scenario the content is the document, two newlines
\* and the input, and metadata.appendedStringLength is 33.
C25_ScenarioAsStated ==
  \A l \in Scenario :
    /\ Get(calls[l].pA.value, "content") = Txt(ScenarioContent)
    /\ AppendedStringLength(l) = Num(33)

\* C25: in the scenario the content is the document, two newlines and the
\* input, and metadata.appendedStringLength is 32, the number of characters
\* of the trimmed input.
C25_Scenario ==
  \A l \in Scenario :
    /\ Get(calls[l].pA.value, "content") = Txt(ScenarioContent)
    /\ AppendedStringLength(l) = Num(32)

\* the scenario has returned for the input as stated and for the same input
\* after two newlines
C25_Witness ==
  \E k, l \in Scenario :
    InputOf(k) = Txt(NewSection) /\ InputOf(l) = Txt(NewSectionPadded)

\* the calls of appendString that have failed
Failures == {l \in Appends : calls[l].pA.t = "rejected"}

\* what the call threw is { error: { message, code: 'APPEND_ERROR', details } }
\* with the type of the input in the details
IsStructured(l) ==
  LET error == Get(calls[l].pA.value, "error") IN
  /\ DOMAIN calls[l].pA.value.v = {"error"}
  /\ error.t = "object"
  /\ Get(error, "message").t = "string"
  /\ Get(error, "code") = Str("APPEND_ERROR")
  /\ Get(error, "details").t = "object"
  /\ Get(Get(error, "details"), "inputType") =
       Str(CASE InputOf(l).t \in {"null", "array", "object"} -> "object"
             [] OTHER -> InputOf(l).t)

InputLength(l) == Get(Get(Get(calls[l].pA.value, "error"), "details"), "inputLength")

ReasonNow ==
  LET error == Get(getCreatePrdFileInfo(file), "error") IN
  IF error.t = "undefined" THEN <<"File not found">> ELSE Parts(error)

\* the call is over and has failed with the message
FailedWith(call, message) ==
  /\ call.io = "none" /\ call.pA.t = "rejected"
  /\ Get(Get(call.pA.value, "error"), "code") = Str("APPEND_ERROR")
  /\ Get(Get(call.pA.value, "error"), "message") = Msg(message)

\* C27: a call with a valid input whose existence check finds the document
\* missing or not readable goes on to ask for the file information only, and
\* then fails with code 'APPEND_ERROR' and the message 'create-prd.md file is
\* not accessible: ' followed by the reason of the file information ('File
\* not found' when it has none); it never reaches the read.
C27_NotAccessible ==
  [][\A l \in DOMAIN calls :
       /\ (/\ calls[l].io = "exists" /\ calls'[l].io # "exists"
           /\ ~(file.exists /\ file.readable))
          => calls'[l].io = "infoMissing"
       /\ (calls[l].io = "infoMissing" /\ calls'[l].io # "infoMissing")
          => FailedWith(calls'[l], <<"create-prd.md file is ", "not accessible", ": ">>
                                    \o ReasonNow)]_vars

\* one call has failed for a document that was not there and another for one
\* that could not be read
C27_Witness ==
  \E k, l \in Failures :
    /\ FailureOf(k) = Msg(<<"create-prd.md file is ", "not accessible", ": ", "File not found">>)
    /\ FailureOf(l) = Msg(<<"create-prd.md file is ", "not accessible", ": ",
                            "Permission denied - file not readable">>)

\* the document is there to be read and has no character but whitespace
IsBlankDocument(f) ==
  f.exists /\ f.readable /\ f.isFile /\ Length(Trim(f.content)) = 0

\* C28: a call with a valid input whose read finds the document empty or
\* whitespace-only fails with 'Failed to read create-prd.md: create-prd.md
\* file is empty or contains only whitespace', and no call returns a content
\* that begins with an empty or whitespace-only document.
C28_BlankDocument ==
  [][\A l \in DOMAIN calls :
       /\ (/\ calls[l].io = "readFile" /\ calls'[l].io # "readFile"
           /\ IsBlankDocument(file))
          => FailedWith(calls'[l],
                        <<"Failed to read create-prd.md: ",
                          "create-prd.md file is empty or contains only whitespace">>)
       /\ calls'[l].pA.t = "fulfilled"
          => \A f \in FileStates :
               IsBlankDocument(f) =>
                 ~IsCombined(Get(calls'[l].pA.value, "content"), f.content, InputOf(l).r)]_vars

\* two calls have failed on a document that has been empty all along
C28_Witness ==
  \E k, l \in Failures :
    /\ k # l
    /\ FailureOf(k) = Msg(<<"Failed to read create-prd.md: ",
                            "create-prd.md file is empty or contains only whitespace">>)
    /\ FailureOf(l) = FailureOf(k)
    /\ file = FileEmpty /\ fileOps = 0

\* C29: no step of the server, whatever the requests and whether they succeed
\* or fail, changes the reference document.
C29_NeverWritten == [][file' = file]_vars

\* an append that succeeded and an append that failed have both been answered
C29_Witness ==
  /\ \E i \in Contents : TRUE
  /\ \E i \in Responses : /\ sent[stdout[i].line].message = <<"callBlank">>
                            /\ HasKey(stdout[i].json, "error")
  /\ file = FileOk

\* the text contains javascript:, vbscript: or data:text/html in some letter
\* case, or a script element with its closing tag
HasHarmfulWord(r) ==
  \E i \in 1..Len(r) :
    r[i].c \in {"javascript:", "JavaScript:", "vbscript:", "VBSCRIPT:",
                "data:text/html", "Data:Text/Html",
                "<script></script>", "<SCRIPT></Script>"}

\* the calls whose input is a string that contains a harmful word
HarmfulCalls ==
  {l \in Appends : /\ InputOf(l).t = "string" /\ "r" \in DOMAIN InputOf(l)
                   /\ HasHarmfulWord(Trim(InputOf(l).r))}

\* two calls with one input have the same verdict of the validation
SameVerdict ==
  \A k, l \in Appends :
    InputOf(k) = InputOf(l) =>
      /\ IsValidationFailure(k) <=> IsValidationFailure(l)
      /\ IsValidationFailure(k) => FailureOf(k) = FailureOf(l)

\* C30 as stated: every input whose trimmed text contains javascript:,
\* vbscript: or data:text/html in any letter case, or a complete script
\* element, fails with 'String to append contains potentially harmful
\* content', and the verdict for an input is the same on every call.
C30_HarmfulAsStated ==
  /\ \A l \in HarmfulCalls :
       FailsWith(l, <<"String to append contains potentially harmful content">>)
  /\ SameVerdict

\* C30: every input of at most 10,000 trimmed characters whose trimmed text
\* contains javascript:, vbscript: or data:text/html in any letter case, or a
\* complete script element, fails with 'String to append contains potentially
\* harmful content'; a longer one fails as too long; an opening script tag
\* alone does not fail; and the verdict for an input is the same on every
\* call.
C30_Harmful ==
  /\ \A l \in HarmfulCalls :
       IF Length(Trim(InputOf(l).r)) <= 10000
       THEN FailsWith(l, <<"String to append contains potentially harmful content">>)
       ELSE FailsWith(l, <<"String to append is too long (",
                           ToString(Length(Trim(InputOf(l).r))),
                           " characters, maximum 10,000)">>)
  /\ \A l \in Appends :
       InputOf(l) = Txt(Run("<script>", 1) \o Run("a", 1)) => ~IsValidationFailure(l)
  /\ SameVerdict

\* one input in capitals has been called twice and has failed as harmful
\* both times
C30_Witness ==
  \E k, l \in HarmfulCalls :
    /\ k # l
    /\ InputOf(k) = Txt(Run("sp", 1) \o Run("VBSCRIPT:", 1))
    /\ InputOf(l) = InputOf(k)
    /\ FailsWith(k, <<"String to append contains potentially harmful content">>)
    /\ FailsWith(l, <<"String to append contains potentially harmful content">>)

\* the calls of appendString that have returned
Successes == {l \in Appends : calls[l].pA.t = "fulfilled"}

MetadataOf(l) == Get(calls[l].pA.value, "metadata")

TemplateOf(tool) ==
  CASE tool = "create-prd"     -> "create-prd.md"
    [] tool = "generate-tasks" -> "generate-tasks.md"
    [] OTHER                   -> "process-task-list.md"

\* what the loader is to return for the name with the files as they are: the
\* text at the primary place, else the text at the alternative place, else
\* the placeholder
Loaded(name) ==
  CASE templates["primary"][name] = "text"  -> Run(name, 1)
    [] templates["primary"][name] = "empty" -> <<>>
    [] templates["alt"][name] = "text"      -> Run(name, 2)
    [] templates["alt"][name] = "empty"     -> <<>>
    [] OTHER -> <<[c |-> "Error: Could not read template file ", n |-> 1],
                  [c |-> name, n |-> 1]>>

\* the runs s hold the runs part one after another
Within(s, part) ==
  \E i \in 0..(Len(s) - Len(part)) : SubSeq(s, i + 1, i + Len(part)) = part

\* the text sits between the two fences of the result the template goes in
Fenced(tool, text) ==
  CASE tool = "create-prd" ->
         <<[c |-> "Instruction:\n[fence]\n", n |-> 1]>> \o text
         \o <<[c |-> "\n[fence]\n\nFeature I want to build:\n[fence]\n", n |-> 1]>>
    [] tool = "generate-tasks" ->
         <<[c |-> "\n[fence]\n\nCreate tasks using:\n[fence]\n", n |-> 1]>> \o text
         \o <<[c |-> "\n[fence]", n |-> 1]>>
    [] OTHER ->
         <<[c |-> " and use:\n[fence]\n", n |-> 1]>> \o text \o <<[c |-> "\n[fence]", n |-> 1]>>

\* the result is { content: [ one item of type text ] }
HasOneText(result) ==
  /\ result.t = "object" /\ DOMAIN result.v = {"content"}
  /\ Get(result, "content").t = "array"
  /\ Len(Get(result, "content").v) = 1
  /\ Get(Get(result, "content").v[1], "type") = Str("text")
  /\ Get(Get(result, "content").v[1], "text").t = "string"

\* C32: every call of one of the three tools returns a result with exactly
\* one text item, whose text holds, where the template goes, the text of the
\* template at the primary place, else the text at the alternative place,
\* else 'Error: Could not read template file <name>'.
C32_LoaderNeverRaises ==
  [][Len(results') = Len(results) + 1 =>
       LET last == results'[Len(results')] IN
       /\ HasOneText(last.result)
       /\ Within(Get(Get(last.result, "content").v[1], "text").r,
                 Fenced(last.tool, Loaded(TemplateOf(last.tool))))]_vars

\* a tool has returned the placeholder, both files of its template being
\* absent
C32_Witness ==
  /\ \E i \in 1..Len(results) :
       /\ results[i].tool = "generate-tasks"
       /\ Within(Get(Get(results[i].result, "content").v[1], "text").r,
                 <<[c |-> "Error: Could not read template file ", n |-> 1],
                   [c |-> "generate-tasks.md", n |-> 1]>>)
  /\ stderr = 2
  /\ templates["primary"]["generate-tasks.md"] = "absent"
  /\ templates["alt"]["generate-tasks.md"] = "absent"

\* two responses to lines with the same text are the same
SameAnswers ==
  \A i, j \in Responses :
    sent[stdout[i].line].message = sent[stdout[j].line].message
      => stdout[i].json = stdout[j].json

\* C33: no step of the running server, whether it receives a line, runs a
\* job of a request or completes a file operation of a handler, changes the
\* registry or the running flag, and the responses to two lines with the same
\* text are the same whatever was handled between them.
C33_RegistryUntouched ==
  [][isRunning => /\ tools' = tools
                  /\ isRunning' = isRunning
                  /\ SameAnswers']_vars

\* two equal calls whose handler failed have both been answered
C33_Witness ==
  /\ isRunning /\ tools # <<>> /\ file = FileGone
  /\ \E i, j \in Responses :
       /\ stdout[i].line # stdout[j].line
       /\ sent[stdout[i].line].message = <<"callOk">>
       /\ sent[stdout[j].line].message = <<"callOk">>
       /\ HasKey(stdout[i].json, "error")

\* the lines of a stream that a newline ends, and what follows the last
RECURSIVE CompleteLines(_)
CompleteLines(stream) ==
  IF \A i \in 1..Len(stream) : stream[i] # "\n" THEN <<>>
  ELSE LET i == CHOOSE i \in 1..Len(stream) :
                  stream[i] = "\n" /\ \A j \in 1..(i - 1) : stream[j] # "\n"
       IN <<SubSeq(stream, 1, i - 1)>> \o CompleteLines(SubSeq(stream, i + 1, Len(stream)))

RECURSIVE Unterminated(_)
Unterminated(stream) ==
  IF stream = <<>> \/ stream[Len(stream)] = "\n" THEN <<>>
  ELSE Append(Unterminated(SubSeq(stream, 1, Len(stream) - 1)), stream[Len(stream)])

\* a line without the blanks at its two ends
Stripped(line) ==
  LET inked == {i \in 1..Len(line) : line[i] # " "} IN
  IF inked = {} THEN <<>>
  ELSE SubSeq(line, CHOOSE i \in inked : \A j \in inked : i <= j,
                    CHOOSE i \in inked : \A j \in inked : j <= i)

\* the stripped lines of a stream that are not empty, in order
RECURSIVE NonEmpty(_)
NonEmpty(lines) ==
  IF lines = <<>> THEN <<>>
  ELSE IF Stripped(Head(lines)) = <<>> THEN NonEmpty(Tail(lines))
  ELSE <<Stripped(Head(lines))>> \o NonEmpty(Tail(lines))

\* the messages dispatched so far, in order
Dispatched == [l \in 1..Len(sent) |-> sent[l].message]

\* C34: however the stream has been cut into chunks, the messages dispatched
\* are the stripped non-empty lines of what has arrived, in order and once
\* each, the buffer holds what follows the last newline, and nothing on
\* stdout answers any other line.
C34_ChunkingIndependent ==
  /\ Dispatched = NonEmpty(CompleteLines(consumed))
  /\ buffer = Unterminated(consumed)
  /\ \A i \in Responses : stdout[i].line \in 1..Len(sent)
  /\ Cardinality(Responses) <= Len(sent)

\* a request that arrived in two pieces, after a blank line, has been
\* dispatched and answered
C34_Witness ==
  /\ consumed = <<" ", "\n", "unknownMethod", "\n">>
  /\ Dispatched = <<(<<"unknownMethod">>)>>
  /\ Cardinality(Responses) = 1

\* the input passes the validation: a string of 1 to 10,000 characters after
\* trimming, with no harmful word
IsValidInput(x) ==
  /\ x.t = "string" /\ "r" \in DOMAIN x
  /\ Length(Trim(x.r)) \in 1..10000
  /\ ~HasHarmfulWord(Trim(x.r))

\* the file operations of appendString, each with those that may follow it
\* ("none": the call awaits no file operation)
Order ==
  {<<"exists", "info">>, <<"exists", "infoMissing">>, <<"infoMissing", "none">>,
   <<"info", "readExists">>, <<"readExists", "readFile">>, <<"readExists", "none">>,
   <<"readFile", "none">>}

\* C35: a call whose input fails the validation is rejected at once and
\* awaits no file operation, then or later; a call whose input passes begins
\* with the existence check, and its file operations follow one another in
\* the order existence check, file information, read; after a failed
\* existence check only the file information follows, never the read.
C35_FixedOrder ==
  [][\A l \in DOMAIN calls' :
       IF l \notin DOMAIN calls
       THEN IF IsValidInput(calls'[l].stringToAppend)
            THEN calls'[l].io = "exists" /\ calls'[l].pA.t = "pending"
            ELSE calls'[l].io = "none" /\ calls'[l].pA.t = "rejected"
       ELSE /\ calls'[l].io # calls[l].io => <<calls[l].io, calls'[l].io>> \in Order
            /\ (calls[l].io = "exists" /\ calls'[l].io = "info")
                 => file.exists /\ file.readable]_vars

\* one call has failed in the validation and another after its existence
\* check, and neither awaits anything
C35_Witness ==
  \E k, l \in Failures :
    /\ InputOf(k) = Num(123) /\ IsValidationFailure(k)
    /\ IsValidInput(InputOf(l))
    /\ Contains(FailureOf(l), "not accessible")
    /\ calls[k].io = "none" /\ calls[l].io = "none"

\* the code and the beginning of the message of the error of a response
Verdict(json) == <<CodeOf(json).v, Get(ErrorOf(json), "message").p[1]>>

\* the checks of a call that come before the one of stringToAppend: the
\* verdict of the first that fails, <<0, "">> when all four pass
FirstFour(s) ==
  LET name == NameOf(s)
      args == ArgumentsOf(s)
  IN
  CASE name.t # "string" \/ name.v = "" ->
         <<-32600, "Invalid request: tool name must be a string">>
    [] ~Has(s.tools, name.v) ->
         <<-32601, "Tool '">>
    [] args.t \notin {"object", "array"} ->
         <<-32600, "Invalid request: arguments must be an object">>
    [] Lacking(s) # {} ->
         <<-32602, "Missing required parameter: ">>
    [] OTHER -> <<0, "">>

HasString(s) == Get(ArgumentsOf(s), "stringToAppend").t = "string"

SameStreams ==
  /\ process'.listeners = process.listeners
  /\ stdin' = stdin
  /\ stdoutEnded' = stdoutEnded

\* C37: a step that finds the server running and leaves it running, a
\* start() among them, adds no listeners, closes no stream and leaves the
\* registry alone; so does a step that finds it stopped and leaves it
\* stopped, a shutdown() among them; a step that stops the running server
\* empties the registry; and when the process exits the server is stopped
\* and its registry empty.
C37_Lifecycle ==
  [][/\ isRunning /\ isRunning' => SameStreams /\ tools' = tools
     /\ ~isRunning /\ ~isRunning' => SameStreams /\ tools' = tools
     /\ isRunning /\ ~isRunning' => tools' = <<>> /\ process'.listeners = process.listeners
     /\ (process.exitCode = Undefined /\ process'.exitCode # Undefined)
          => ~isRunning' /\ tools' = <<>> /\ stdin' = "closed"]_vars

\* shutdown() was called before start(), start() twice, and a signal has
\* ended the process: the listeners were attached once
C37_Witness ==
  /\ \E i \in 1..Len(stdout) : stdout[i] = [kind |-> "log", text |-> "MCP Server is not running"]
  /\ \E i \in 1..Len(stdout) : stdout[i] = [kind |-> "log", text |-> "MCP Server is already running"]
  /\ process.exitCode = Num(0) /\ process.listeners = 1
  /\ ~isRunning /\ tools = <<>>

\* C38: the end of the input dispatches nothing and nothing is dispatched
\* after it, whatever the buffer holds; there are never more messages than
\* newlines received, nor more responses than messages.
C38_UnterminatedDropped ==
  [][stdin' = "closed" =>
       /\ sent' = sent
       /\ buffer' = buffer
       /\ Len(sent') <= received'
       /\ \A i \in Responses' : stdout'[i].line \in 1..Len(sent)]_vars

\* the input has ended after a line and a whole request without a newline:
\* the line was answered, the request is in the buffer still
C38_Witness ==
  /\ stdin = "closed" /\ micro = <<>>
  /\ consumed = <<"list", "\n", "list">>
  /\ buffer = <<"list">>
  /\ Len(sent) = 1

====
